---- MODULE Spec2Model ----
(***************************************************************************)
(* Switchboard controller (front/msn/msnp_sb.py, front/msn/msnp.py) over   *)
(* the shared backend: token handoff (USR / ANS), the anti-flood timer,    *)
(* close, and the chat-event fan-out that the handlers trigger.            *)
(*                                                                         *)
(* Time is counted in half seconds, so that round() of a difference of     *)
(* seconds has something to round.                                         *)
(***************************************************************************)
EXTENDS Integers, Sequences, FiniteSets, TLC

\* ------------------------------------------------------------- bounds
MaxTokens == 2

\* the sessions a room may hold under SpecRoom
MaxSessions == 3

\* under SpecCodec: the header lines and the body pieces of a body to decode, the
\* pieces of a text to encode, the recipients of a fan-out
MaxLines == 2

MaxBody == 3

MaxText == 3

MaxRecipients == 3

MaxChunk == 2

MaxRooms == 2

MaxFrames == 2

MaxCuts == 2

MaxArgs == 2

\* chat sessions that the IRC connections open in all
MaxMemberships == 4

\* frames that a client sends again after its stream
MaxResends == 1

\* messages that reach the bot's chat session
MaxInbox == 4

\* ------------------------------------------------------------- fixtures
Ctrls == {"c1", "c2", "c3"}

\* the connections that the handoff specification opens
Pair == {"c1", "c2"}
Sessions == {"b1", "b3"}

\* the backend sessions that the room specification lets into a room
RoomSessions == {"b1", "b2", "b3", "b4"}
Ord(c) == IF c = "c1" THEN 1 ELSE IF c = "c2" THEN 2 ELSE 3
NoBs == "nobs"
TrIds == {1, 2}
Emails == {"u1@x", "u2@x"}
Instants == {0, 119, 120}
NoPop == [some |-> FALSE, v |-> <<>>]

Pop(s) == [some |-> TRUE, v |-> s]

\* device ids as a client may write them in "email;{id}"
PopForms == {NoPop, Pop(<<"{", "A", "}">>), Pop(<<"{", "b", "}">>)}

\* BackendSession.user / User.email / User.status.name
BsUser(b) == IF b = "b3" THEN "u2" ELSE IF b = "b4" THEN "u3" ELSE "u1"

UserEmail(u) == IF u = "u1" THEN "u1@x" ELSE IF u = "u2" THEN "u2@x" ELSE "u3@x"

UserName(u) == IF u = "u1" THEN "" ELSE IF u = "u2" THEN "Bob" ELSE "Cy"

\* the addresses that have an account
Accounts == Emails \cup {"u3@x"}

\* front_data['msn_pop_id'], front_data['msn'], front_data['msn_capabilities(ex)']
BsPopId(b) == IF b = "b1" THEN Pop(<<"a">>) ELSE IF b = "b2" THEN Pop(<<"B">>) ELSE NoPop

BsMsn(b) == b # "b2"

\* front_data.get('msn_capabilities') is not None
BsCapsRecorded(b) == b = "b1"

BsCapabilities(b) == IF b = "b1" THEN 4 ELSE 0

BsCapabilitiesEx(b) == IF b = "b1" THEN 1 ELSE 0

\* the dialect the session's client negotiated with the notification server
BsDialect(b) == IF b = "b3" THEN 14 ELSE IF b = "b4" THEN 11 ELSE 18

MAX_CAPABILITIES_BASIC == 1073741824

\* ------------------------------------------------------------- strings
Lower(ch) == IF ch = "A" THEN "a" ELSE IF ch = "B" THEN "b" ELSE ch

lower(s) == [i \in DOMAIN s |-> Lower(s[i])]

IsBrace(ch) == ch \in {"{", "}"}

NotBrace(ch) == ~IsBrace(ch)

\* s.replace('{', '').replace('}', '')
strip_braces(s) == SelectSeq(s, NotBrace)

\* (email, pop_id) = decode_email_pop(arg)
decode_email_pop(arg) == <<arg.email, arg.pop>>

\* encode_email_pop(email, pop_id)
encode_email_pop(email, pop) ==
  [email |-> email, pop |-> IF pop.some THEN Pop(<<"{">> \o pop.v \o <<"}">>) ELSE NoPop]

encode_capabilities_capabilitiesex(caps, capsex) == <<caps, capsex>>

\* Python round() of h half seconds: to the nearest second, halves to even
round(h) ==
  LET q == h \div 2
  IN IF h % 2 = 0 THEN q ELSE IF q % 2 = 0 THEN q ELSE q + 1

\* ------------------------------------------------------------- state
VARIABLES
  now,       \* time.time(), in half seconds
  tokens,    \* auth_service: token -> entry
  roster,    \* roster[ch]: ChatSession ids of Chat ch, in insertion order
  sessions,  \* sessions[i]: ChatSession i
  ctl,       \* ctl[c]: the fields of MSNPCtrlSB c
  last,      \* the last step, if a USR, ANS or timer step: operation, controller, exit taken
  oims,      \* storage/oim: oims[r][id] is the file of message id for recipient r
  irc,       \* the IRC front-end: its controllers and the rooms they are in
  bot,       \* the bot's chat session: its handler, its delayed task, what it sent
  reader     \* an MSNPReader and the chunks that its transport has still to deliver

vars == <<now, tokens, roster, sessions, ctl, last, oims, irc, bot, reader>>

\* the switchboard and its backend
switchboard == <<now, tokens, roster, sessions, ctl>>

\* the state outside the switchboard
fronts == <<oims, irc, bot, reader>>

TokenIds == 1..MaxTokens

FreeToken == [state |-> "free", ns |-> "", bs |-> NoBs, dialect |-> 0, chat |-> 0, expiry |-> 0]

NoArg == [email |-> "", pop |-> NoPop]

NoOp == [op |-> "", c |-> "", ret |-> ""]

\* MSNPCtrlSB.__init__ / MSNPCtrl.__init__
NewCtrl == [conn |-> "new", closed |-> FALSE, auth_sent |-> FALSE, counter_task |-> "none",
            dialect |-> 0, bs |-> NoBs, cs |-> 0]

\* the state a handler starts from; wire collects the frames it writes, in order,
\* and calls the runs of close_callback and _on_close
St == [ctl |-> ctl, tokens |-> tokens, roster |-> roster, sessions |-> sessions, wire |-> <<>>,
       calls |-> <<>>, ret |-> ""]

\* the handler leaves by the exit named r
Ret(S, r) == [S EXCEPT !.ret = r]

Fr(to, verb, trid, args) == [to |-> to, verb |-> verb, trid |-> trid, args |-> args]

\* MSNPCtrl.send_reply
send_reply(S, c, verb, trid, args) == [S EXCEPT !.wire = Append(@, Fr(c, verb, trid, args))]

\* ------------------------------------------------------------- roster
Range(q) == {q[i] : i \in DOMAIN q}

CsUser(S, i) == BsUser(S.sessions[i].bs)

InRoster(S, i) == i \in Range(S.roster[S.sessions[i].chat])

\* the other sessions of i's user in i's room
SameUser(S, i) ==
  {j \in Range(S.roster[S.sessions[i].chat]) : j # i /\ CsUser(S, j) = CsUser(S, i)}

\* a capability field that is the sentinel whenever nothing is recorded
caps_basic_sentinel_unrecorded(b) ==
  IF BsMsn(b) /\ BsCapsRecorded(b) THEN BsCapabilities(b) ELSE MAX_CAPABILITIES_BASIC

\* (front_data.get('msn_capabilities') or 0) if front_data.get('msn') is True else MAX_CAPABILITIES_BASIC
caps_basic(b) ==
  IF BsMsn(b) THEN (IF BsCapsRecorded(b) THEN BsCapabilities(b) ELSE 0)
  ELSE MAX_CAPABILITIES_BASIC

caps_compound(b) == encode_capabilities_capabilitiesex(caps_basic(b), BsCapabilitiesEx(b))

\* a handler that tells observers of every dialect of every device
on_participant_joined_every_device(S, obs, other, first_pop) ==
  LET c == S.sessions[obs].ctrl
      d == S.ctl[c].dialect
      b == S.sessions[other].bs
      mail == UserEmail(BsUser(b))
      name == UserName(BsUser(b))
      pop_id_other == BsPopId(b)
      email == IF pop_id_other.some /\ d >= 16 THEN encode_email_pop(mail, pop_id_other)
               ELSE encode_email_pop(mail, NoPop)
      extra == IF 12 <= d /\ d <= 15 THEN <<caps_basic(b)>>
               ELSE IF d >= 16 THEN <<caps_compound(b)>> ELSE <<>>
      S1 == send_reply(S, c, "JOI", 0, <<email, name>> \o extra)
  IN IF first_pop /\ pop_id_other.some /\ d >= 16
     THEN send_reply(S1, c, "JOI", 0, <<encode_email_pop(mail, NoPop), name>> \o extra)
     ELSE S1

\* ChatEventHandler.on_participant_joined of session obs, told that other joined
on_participant_joined(S, obs, other, first_pop) ==
  LET c == S.sessions[obs].ctrl
      d == S.ctl[c].dialect
      b == S.sessions[other].bs
      mail == UserEmail(BsUser(b))
      name == UserName(BsUser(b))
      pop_id_other == BsPopId(b)
      email == IF pop_id_other.some /\ d >= 16 THEN encode_email_pop(mail, pop_id_other)
               ELSE encode_email_pop(mail, NoPop)
      extra == IF 12 <= d /\ d <= 15 THEN <<caps_basic(b)>>
               ELSE IF d >= 16 THEN <<caps_compound(b)>> ELSE <<>>
      S1 == send_reply(S, c, "JOI", 0, <<email, name>> \o extra)
  IN IF ~first_pop /\ d < 16 THEN S
     ELSE IF first_pop /\ pop_id_other.some /\ d >= 16
          THEN send_reply(S1, c, "JOI", 0, <<encode_email_pop(mail, NoPop), name>> \o extra)
          ELSE S1

\* a handler that tells observers of every dialect of every device that leaves
on_participant_left_every_device(S, obs, other, idle, last_pop) ==
  LET c == S.sessions[obs].ctrl
      d == S.ctl[c].dialect
      b == S.sessions[other].bs
      mail == UserEmail(BsUser(b))
      pop_id_other == BsPopId(b)
      email == IF pop_id_other.some /\ d >= 16 THEN encode_email_pop(mail, pop_id_other)
               ELSE encode_email_pop(mail, NoPop)
      extra == IF idle THEN <<1>> ELSE <<>>
      S1 == send_reply(S, c, "BYE", 0, <<email>> \o extra)
  IN IF last_pop /\ pop_id_other.some /\ d >= 16
     THEN send_reply(S1, c, "BYE", 0, <<encode_email_pop(mail, NoPop)>> \o extra)
     ELSE S1

\* ChatEventHandler.on_participant_left of session obs, told that other left
on_participant_left(S, obs, other, idle, last_pop) ==
  LET c == S.sessions[obs].ctrl
      d == S.ctl[c].dialect
      b == S.sessions[other].bs
      mail == UserEmail(BsUser(b))
      pop_id_other == BsPopId(b)
      email == IF pop_id_other.some /\ d >= 16 THEN encode_email_pop(mail, pop_id_other)
               ELSE encode_email_pop(mail, NoPop)
      extra == IF idle THEN <<1>> ELSE <<>>
      S1 == send_reply(S, c, "BYE", 0, <<email>> \o extra)
  IN IF ~last_pop /\ d < 16 THEN S
     ELSE IF last_pop /\ pop_id_other.some /\ d >= 16
          THEN send_reply(S1, c, "BYE", 0, <<encode_email_pop(mail, NoPop)>> \o extra)
          ELSE S1

\* chat.ids['irc']
IrcId(ch) == ch

\* the IRC front-end's ChatEventHandler.on_participant_joined, for an observer on
\* connection c in room ch
irc_on_participant_joined(S, c, ch, other, first_pop) ==
  IF first_pop
  THEN send_reply(S, c, "JOIN", 0, <<IrcId(ch), UserEmail(CsUser(S, other))>>)
  ELSE S

\* the IRC front-end's ChatEventHandler.on_participant_left
irc_on_participant_left(S, c, ch, other, idle, last_pop) ==
  IF last_pop
  THEN send_reply(S, c, "PART", 0, <<IrcId(ch), UserEmail(CsUser(S, other))>>)
  ELSE S

RECURSIVE fanout_joined(_, _, _, _)
fanout_joined(S, q, cs, first_pop) ==
  IF q = <<>> THEN S
  ELSE fanout_joined(IF Head(q) = cs THEN S ELSE on_participant_joined(S, Head(q), cs, first_pop),
                     Tail(q), cs, first_pop)

\* Chat.send_participant_joined: every other roster member is told, in roster order
send_participant_joined(S, cs) ==
  fanout_joined(S, S.roster[S.sessions[cs].chat], cs, SameUser(S, cs) = {})

RECURSIVE fanout_left(_, _, _, _, _)
fanout_left(S, q, cs, idle, last_pop) ==
  IF q = <<>> THEN S
  ELSE fanout_left(on_participant_left(S, Head(q), cs, idle, last_pop), Tail(q), cs, idle, last_pop)

\* Backend.chat_create: a new room with an empty roster
chat_create(S) == [S EXCEPT !.roster = Append(@, <<>>)]

\* chat.ids['main']
MainId(ch) == ch

\* Chat.join: a new ChatSession at the end of the roster; the user's first device is primary
join(S, ch, b, c, pop_id) ==
  LET i == Len(S.sessions) + 1
      prim == \A j \in Range(S.roster[ch]) : CsUser(S, j) # BsUser(b)
      cs == [chat |-> ch, bs |-> b, ctrl |-> c, pop_id |-> pop_id, primary_pop |-> prim]
  IN [S EXCEPT !.sessions = Append(@, cs), !.roster[ch] = Append(@, i)]

\* ------------------------------------------------------------- close
RECURSIVE close(_, _, _)
RECURSIVE ChatSession_close(_, _, _)
\* ChatEventHandler.on_close
on_close(S, i, keep_future, idle) == close(S, S.sessions[i].ctrl, idle)

\* ChatSession.close: leave the roster, tell the handler, tell the rest
ChatSession_close(S, i, idle) ==
  IF ~InRoster(S, i) THEN S
  ELSE LET ch == S.sessions[i].chat
           S1 == [S EXCEPT !.roster[ch] = SelectSeq(@, LAMBDA j : j # i)]
           S2 == on_close(S1, i, FALSE, idle)
       IN fanout_left(S2, S2.roster[ch], i, idle, SameUser(S2, i) = {})

\* a run of method f of controller c
Called(S, c, f) == [S EXCEPT !.calls = Append(@, [c |-> c, f |-> f])]

\* MSNPCtrlSB._on_close
ctrl_on_close(S0, c) ==
  LET S == Called(S0, c, "_on_close")
      S1 == IF S.ctl[c].counter_task # "none" THEN [S EXCEPT !.ctl[c].counter_task = "none"] ELSE S
  IN IF S1.ctl[c].cs # 0 THEN ChatSession_close(S1, S1.ctl[c].cs, FALSE) ELSE S1

\* a close that does not look at the closed flag
close_again(S, c, hard) ==
  LET S1 == [S EXCEPT !.ctl[c].closed = TRUE]
      S2 == IF ~hard THEN send_reply(S1, c, "OUT", 0, <<>>) ELSE S1
  IN ctrl_on_close(Called(S2, c, "close_callback"), c)

\* MSNPCtrl.close; the listener has set close_callback
close(S, c, hard) ==
  IF S.ctl[c].closed THEN S
  ELSE LET S1 == [S EXCEPT !.ctl[c].closed = TRUE]
           S2 == IF ~hard THEN send_reply(S1, c, "OUT", 0, <<>>) ELSE S1
       IN ctrl_on_close(Called(S2, c, "close_callback"), c)

\* ------------------------------------------------------------- tokens
\* a token lives this long after it was issued (half seconds)
TokenLife == 120

\* the code's staleness window, in seconds
StaleSecs == 60

\* auth_service.get_token: the payload, or a free entry for none
get_token(S, ns, t) ==
  LET e == S.tokens[t]
  IN IF e.state = "live" /\ e.ns = ns /\ now - e.expiry < TokenLife THEN e ELSE FreeToken

\* auth_service.get_token_expiry(...) or 0
get_token_expiry(S, ns, t) ==
  IF get_token(S, ns, t).state = "live" THEN S.tokens[t].expiry ELSE 0

\* auth_service.pop_token: the store after the call (the payload is get_token's)
pop_token(S, ns, t) ==
  IF S.tokens[t].state = "live" /\ S.tokens[t].ns = ns
  THEN [S EXCEPT !.tokens[t].state = "used"] ELSE S

\* an identity check that compares device ids only
identity_mismatch_device_only(b, dialect, email, pop_id) ==
  /\ dialect >= 16
  /\ pop_id.some
  /\ lower(IF BsPopId(b).some THEN BsPopId(b).v ELSE <<>>) # lower(strip_braces(pop_id.v))

\* an identity check that compares emails only
identity_mismatch_email_only(b, dialect, email, pop_id) == UserEmail(BsUser(b)) # email

\* bs.user.email != email or (dialect >= 16 and pop_id is not None and
\*   bs_pop_id.lower() != pop_id.replace('{', '').replace('}', '').lower())
identity_mismatch(b, dialect, email, pop_id) ==
  LET bs_pop_id == IF BsPopId(b).some THEN BsPopId(b).v ELSE <<>>
  IN \/ UserEmail(BsUser(b)) # email
     \/ /\ dialect >= 16
        /\ pop_id.some
        /\ lower(bs_pop_id) # lower(strip_braces(pop_id.v))

\* pop_id.replace('{', '').replace('}', '') unless pop_id is None
join_pop_id(pop_id) == IF pop_id.some THEN Pop(strip_braces(pop_id.v)) ELSE NoPop

\* a binding that leaves the timer task running
bind_keep_timer(S, c, dialect, b, cs) ==
  [S EXCEPT !.ctl[c].dialect = dialect, !.ctl[c].bs = b, !.ctl[c].cs = cs]

\* self.dialect = dialect; self.bs = bs; self.cs = cs; the timer task is cancelled and cleared
bind(S, c, dialect, b, cs) ==
  [S EXCEPT !.ctl[c].dialect = dialect, !.ctl[c].bs = b, !.ctl[c].cs = cs,
            !.ctl[c].counter_task = "none"]

\* a transfer that reads its token and leaves it in the store
usr_take_token_peek(S, token) == S

\* _m_usr line 63: the transfer token is popped
usr_take_token(S, token) == pop_token(S, "sb/xfr", token)

\* a reply that always carries the display name, empty or not
usr_reply_name_plain(b) == UserName(BsUser(b))

\* _m_usr line 90: cs.user.status.name or cs.user.email
usr_reply_name(b) ==
  IF UserName(BsUser(b)) # "" THEN UserName(BsUser(b)) ELSE UserEmail(BsUser(b))

\* MSNPCtrlSB._m_usr
m_usr(S0, c, trid, arg, token, bad, refuse) ==
  LET S == [S0 EXCEPT !.ctl[c].auth_sent = TRUE]
      email == decode_email_pop(arg)[1]
      pop_id == decode_email_pop(arg)[2]
      data == get_token(S, "sb/xfr", token)
      S1 == usr_take_token(S, token)
      S2 == chat_create(S1)
      ch == Len(S2.roster)
      S3 == join(S2, ch, data.bs, c, join_pop_id(pop_id))
      cs == Len(S3.sessions)
  IN IF bad THEN Ret(close(S, c, TRUE), "framing")
     ELSE IF data.state # "live"
          THEN Ret(close(send_reply(S1, c, "ERR", trid, <<"AuthFail">>), c, TRUE), "token")
     ELSE IF identity_mismatch(data.bs, data.dialect, email, pop_id)
          THEN Ret(close(send_reply(S1, c, "ERR", trid, <<"AuthFail">>), c, TRUE), "identity")
     ELSE IF refuse
          \* the except branch replies and falls through; "self.cs = cs" then raises
          THEN Ret([send_reply(S2, c, "ERR", trid, <<"JoinRefused", S.ctl[c].dialect>>)
                      EXCEPT !.ctl[c].dialect = data.dialect, !.ctl[c].bs = data.bs], "refused")
     ELSE Ret(send_reply(bind(S3, c, data.dialect, data.bs, cs), c, "USR", trid,
                         <<"OK", arg, usr_reply_name(data.bs)>>), "joined")

\* ------------------------------------------------------------- roster rows
\* Chat.get_roster
get_roster(S, ch) == S.roster[ch]

\* Chat.get_roster_single: one session per user, the primary device if it is there,
\* else the user's last session
get_roster_single(S, ch) ==
  LET q == S.roster[ch]
      Mine(i) == {k \in DOMAIN q : CsUser(S, q[k]) = CsUser(S, i)}
      HasPrimary(i) == \E k \in Mine(i) : S.sessions[q[k]].primary_pop
      Rep(i) == IF HasPrimary(i) THEN S.sessions[i].primary_pop
                ELSE \A k \in Mine(i) : q[k] = i \/ \E m \in Mine(i) : m > k /\ q[m] = i
  IN SelectSeq(q, Rep)

\* the first loop of the dialect >= 16 enumeration: [tmp, l]
RECURSIVE iro_collect(_, _, _, _, _, _)
iro_collect(S, ch, prims, seen, tmp, l) ==
  IF prims = <<>> THEN [tmp |-> tmp, l |-> l]
  ELSE LET p == Head(prims)
           Other(o) == /\ o \notin seen
                       /\ UserEmail(CsUser(S, o)) = UserEmail(CsUser(S, p))
                       /\ ~S.sessions[o].primary_pop
           others == SelectSeq(get_roster(S, ch), Other)
       IN IF p \in seen THEN iro_collect(S, ch, Tail(prims), seen, tmp, l)
          ELSE iro_collect(S, ch, Tail(prims), seen \cup Range(others) \cup {p},
                           tmp \o others \o <<p>>,
                           l + Len(others) + (IF BsPopId(S.sessions[p].bs).some THEN 2 ELSE 1))

\* the second loop of the dialect >= 16 enumeration
RECURSIVE iro_rows(_, _, _, _, _, _)
iro_rows(S, c, trid, tmp, i, l) ==
  IF tmp = <<>> THEN S
  ELSE LET o == Head(tmp)
           b == S.sessions[o].bs
           mail == UserEmail(BsUser(b))
           name == UserName(BsUser(b))
           S1 == send_reply(S, c, "IRO", trid,
                            <<i, l, encode_email_pop(mail, BsPopId(b)), name, caps_compound(b)>>)
       IN IF S.sessions[o].primary_pop /\ BsPopId(b).some
          THEN iro_rows(send_reply(S1, c, "IRO", trid,
                                   <<i + 1, l, encode_email_pop(mail, NoPop), name, caps_compound(b)>>),
                        c, trid, Tail(tmp), i + 2, l)
          ELSE iro_rows(S1, c, trid, Tail(tmp), i + 1, l)

\* the enumeration for dialect < 16: one row per user other than the caller's
RECURSIVE iro_rows_single(_, _, _, _, _, _, _)
iro_rows_single(S, c, trid, q, i, l, dialect) ==
  IF q = <<>> THEN S
  ELSE LET b == S.sessions[Head(q)].bs
           extra == IF dialect >= 12 THEN <<caps_basic(b)>> ELSE <<>>
       IN iro_rows_single(send_reply(S, c, "IRO", trid,
                            <<i + 1, l, encode_email_pop(UserEmail(BsUser(b)), NoPop),
                              UserName(BsUser(b))>> \o extra),
                          c, trid, Tail(q), i + 1, l, dialect)

\* an enumeration that gives a caller of dialect below 16 one row per device
send_roster_per_device(S, c, trid, ch, dialect) ==
  LET roster_chatsessions == get_roster_single(S, ch)
      col == iro_collect(S, ch, roster_chatsessions, {}, <<>>, 0)
      NotMine(o) == CsUser(S, o) # CsUser(S, S.ctl[c].cs)
      roster_one_per_user == SelectSeq(get_roster(S, ch), NotMine)
  IN IF dialect >= 16 THEN iro_rows(S, c, trid, col.tmp, 1, col.l)
     ELSE iro_rows_single(S, c, trid, roster_one_per_user, 0, Len(roster_one_per_user), dialect)

\* the roster enumeration of _m_ans, lines 140-186
send_roster(S, c, trid, ch, dialect) ==
  LET roster_chatsessions == get_roster_single(S, ch)
      col == iro_collect(S, ch, roster_chatsessions, {}, <<>>, 0)
      NotMine(o) == CsUser(S, o) # CsUser(S, S.ctl[c].cs)
      roster_one_per_user == SelectSeq(roster_chatsessions, NotMine)
  IN IF dialect >= 16 THEN iro_rows(S, c, trid, col.tmp, 1, col.l)
     ELSE iro_rows_single(S, c, trid, roster_one_per_user, 0, Len(roster_one_per_user), dialect)

\* a call-in that reads its token and leaves it in the store
ans_take_token_peek(S, token) == S

\* _m_ans line 108: the call-in token is popped
ans_take_token(S, token) == pop_token(S, "sb/cal", token)

\* a staleness test that truncates the age where the code rounds it
is_stale_floor(expiry) == (now - expiry) \div 2 >= StaleSecs

\* _m_ans line 109: round(time.time() - expiry) >= 60
is_stale(expiry) == round(now - expiry) >= StaleSecs

\* a room test that never looks at the session id
wrong_room_unchecked(chat, sessid) == chat = 0

\* _m_ans line 120: chat is None or sessid != chat.ids.get('main')
wrong_room(chat, sessid) == chat = 0 \/ sessid # MainId(chat)

\* an announcement that replies first and enumerates afterwards
ans_announce_reply_first(S, c, trid, cs, chat, dialect) ==
  send_participant_joined(send_roster(send_reply(S, c, "ANS", trid, <<"OK">>),
                                      c, trid, chat, dialect), cs)

\* _m_ans lines 138-188: the broadcast, the roster rows, the reply
ans_announce(S, c, trid, cs, chat, dialect) ==
  send_reply(send_roster(send_participant_joined(S, cs), c, trid, chat, dialect),
             c, "ANS", trid, <<"OK">>)

\* MSNPCtrlSB._m_ans
m_ans(S0, c, trid, arg, token, sessid, bad, refuse) ==
  LET S == [S0 EXCEPT !.ctl[c].auth_sent = TRUE]
      email == decode_email_pop(arg)[1]
      pop_id == decode_email_pop(arg)[2]
      data == get_token(S, "sb/cal", token)
      expiry == get_token_expiry(S, "sb/cal", token)
      S1 == ans_take_token(S, token)
      S2 == join(S1, data.chat, data.bs, c, join_pop_id(pop_id))
      cs == Len(S2.sessions)
      S3 == bind(S2, c, data.dialect, data.bs, cs)
  IN IF bad THEN Ret(close(S, c, TRUE), "framing")
     ELSE IF data.state # "live"
          THEN Ret(close(send_reply(S, c, "ERR", trid, <<"AuthFail">>), c, TRUE), "token")
     ELSE IF is_stale(expiry) THEN Ret(close(S1, c, TRUE), "stale")
     ELSE IF identity_mismatch(data.bs, data.dialect, email, pop_id)
          THEN Ret(close(send_reply(S1, c, "ERR", trid, <<"AuthFail">>), c, TRUE), "identity")
     ELSE IF wrong_room(data.chat, sessid) THEN Ret(close(S1, c, TRUE), "room")
     ELSE IF refuse
          THEN Ret(send_reply(S1, c, "ERR", trid, <<"JoinRefused", data.dialect>>), "refused")
     ELSE Ret(ans_announce(S3, c, trid, cs, data.chat, data.dialect), "joined")

\* MSNPCtrl._m_out
m_out(S, c) == close(S, c, FALSE)

\* MSNPCtrlSB._conn_auth_limit_counter, after its sleep
conn_auth_limit_counter(S, c) ==
  IF ~S.ctl[c].auth_sent THEN Ret(close(S, c, TRUE), "closed")
  ELSE Ret([S EXCEPT !.ctl[c].counter_task = "done"], "spared")

\* ------------------------------------------------------------- messages
\* _m_msg line 251: the payload ceiling, in bytes
PayloadCeiling == 1664

AckModes == {"U", "N", "A", "D"}

\* payload lengths around the ceiling
Sizes == {1, 1664, 1665}

\* MessageData.type of what messagedata_from_msnp decodes
Kinds == {"Chat", "Typing"}

\* ChatEventHandler.on_message of session obs
on_message(S, obs, data) ==
  LET c == S.sessions[obs].ctrl
      u == CsUser(S, data.sender)
  IN IF data.type # "TypingDone"
     THEN send_reply(S, c, "MSG", 0, <<UserEmail(u), UserName(u), data>>)
     ELSE S

RECURSIVE fanout_message(_, _, _)
fanout_message(S, q, data) ==
  IF q = <<>> THEN S
  ELSE fanout_message(IF Head(q) = data.sender THEN S ELSE on_message(S, Head(q), data),
                      Tail(q), data)

\* ChatSession.send_message_to_everyone: every other roster member's handler is called;
\* delivered is false when the handlers fault, which the backend catches and logs
send_message_to_everyone(S, cs, data, delivered) ==
  IF delivered THEN fanout_message(S, S.roster[S.sessions[cs].chat], data) ELSE S

\* a ceiling test that also turns the 1664th byte away
oversize_at_ceiling(size) == size >= PayloadCeiling

\* _m_msg line 251: len(data) > 1664
oversize(size) == size > PayloadCeiling

\* MSNPCtrlSB._m_msg; the asserts raise into data_received, which logs and goes on
m_msg(S, c, trid, ack, size, kind, delivered) ==
  LET cs == S.ctl[c].cs
      data == [type |-> kind, size |-> size, sender |-> cs]
      S1 == send_message_to_everyone(S, cs, data, delivered)
      any_failed == FALSE
  IN IF S.ctl[c].bs = NoBs \/ cs = 0 THEN Ret(S, "assert")
     ELSE IF oversize(size) THEN Ret(close(S, c, TRUE), "oversize")
     ELSE IF ack = "U" THEN Ret(S1, "sent")
     ELSE IF any_failed THEN Ret(send_reply(S1, c, "NAK", trid, <<>>), "sent")
     ELSE IF ack # "N" THEN Ret(send_reply(S1, c, "ACK", trid, <<>>), "sent")
     ELSE Ret(S1, "sent")

\* ------------------------------------------------------------- invites
\* addresses a CAL may name: one that is no address, one of nobody, and the users'
Targets == {"bad", "who@x"} \cup Accounts

\* re.match(r'^[a-zA-Z0-9._\-]+@([a-zA-Z0-9\-]+\.)+[a-zA-Z]+$', invitee_email)
ValidSyntax(e) == e # "bad"

\* backend.util_get_uuid_from_email(invitee_email) is not None
util_get_uuid_from_email(e) == e \in Accounts

\* what cs.invite(invitee) may do
InviteOutcomes == {"ok", "ContactAlreadyOnList", "PolicyDenied"}

\* ChatSession.invite, when it goes through: the invitee is told of the room
invite(S, cs, target) == [S EXCEPT !.wire = Append(@, Fr(target, "INVITE", 0, <<S.sessions[cs].chat>>))]

\* a try block that invites without looking at the target's presence
cal_try_presence_blind(S, c, target, detail, loaded, offlineish, outcome) ==
  IF ~detail THEN "AssertionError" ELSE IF ~loaded THEN "return" ELSE outcome

\* _m_cal lines 211-228: how the try block ends: "ok", "return", or the exception raised
cal_try(S, c, target, detail, loaded, offlineish, outcome) ==
  IF ~detail THEN "AssertionError"
  ELSE IF ~loaded THEN "return"
  ELSE IF target # UserEmail(BsUser(S.ctl[c].bs)) /\ offlineish THEN "ContactNotOnline"
  ELSE outcome

\* a shim that fires for every dialect
cal_shim_any_dialect(S, c, ex, target) ==
  LET cs == S.ctl[c].cs
      chat_roster_single == get_roster_single(S, S.sessions[cs].chat)
  IN /\ ex = "ContactAlreadyOnList"
     /\ target = UserEmail(BsUser(S.ctl[c].bs))
     /\ Len(chat_roster_single) = 1
     /\ chat_roster_single[1] = cs

\* _m_cal line 233: the invite-self condition
cal_shim(S, c, ex, target) ==
  LET cs == S.ctl[c].cs
      chat_roster_single == get_roster_single(S, S.sessions[cs].chat)
  IN /\ ex = "ContactAlreadyOnList"
     /\ target = UserEmail(BsUser(S.ctl[c].bs))
     /\ Len(chat_roster_single) = 1
     /\ chat_roster_single[1] = cs
     /\ S.ctl[c].dialect >= 16

\* MSNPCtrlSB._m_cal
m_cal(S, c, trid, target, detail, loaded, offlineish, outcome) ==
  LET cs == S.ctl[c].cs
      bs == S.ctl[c].bs
      chat == S.sessions[cs].chat
      ex == cal_try(S, c, target, detail, loaded, offlineish, outcome)
      ringing(T) == send_reply(T, c, "CAL", trid, <<"RINGING", MainId(chat)>>)
  IN IF cs = 0 \/ bs = NoBs THEN Ret(S, "assert")
     ELSE IF ~ValidSyntax(target)
          THEN Ret(send_reply(S, c, "ERR", trid, <<"InvalidUser2">>), "syntax")
     ELSE IF ~util_get_uuid_from_email(target)
          THEN Ret(send_reply(S, c, "ERR", trid, <<"PrincipalNotOnline">>), "unknown")
     ELSE IF ex = "return" THEN Ret(S, "return")
     ELSE IF ex = "ok"
          THEN IF S.ctl[c].dialect >= 16 /\ target = UserEmail(BsUser(bs))
               THEN Ret(on_participant_joined(ringing(invite(S, cs, target)), cs, cs, TRUE), "self")
               ELSE Ret(ringing(invite(S, cs, target)), "ringing")
     ELSE IF cal_shim(S, c, ex, target)
          THEN Ret(on_participant_joined(ringing(S), cs, cs, TRUE), "shim")
     ELSE Ret(send_reply(S, c, "ERR", trid, <<ex, S.ctl[c].dialect>>),
              IF ex = "ContactNotOnline" THEN "offline" ELSE "error")

\* ------------------------------------------------------------- dispatch
\* A frame as MSNPReader hands it to data_received: the verb, whether its arguments
\* fit the handler's parameters ("ok"), fall short of them ("few") or exceed them
\* ("many"), and the arguments that the handlers look at.
Frame(verb, arity, arg, token, refuse, size) ==
  [verb |-> verb, arity |-> arity, arg |-> arg, token |-> token, refuse |-> refuse, size |-> size]

\* the verbs for which MSNPCtrlSB has a method _m_<verb>
Handlers == {"USR", "ANS", "CAL", "MSG", "OUT"}

\* the handlers whose parameter list ends with *args
Variadic == {"USR", "ANS"}

\* data_received lines 38-39, with a reply to the client
log_error_and_reply(S, c, ex) == Ret(send_reply(S, c, "ERR", 0, <<ex>>), ex)

\* data_received lines 38-39: except Exception as ex: self.logger.error(ex)
log_error(S, c, ex) == Ret(S, ex)

\* a dispatcher that closes the connection on an exception
caught_and_closed(S, c, raising) ==
  IF S.ret \in raising THEN Ret(close(S, c, TRUE), S.ret) ELSE S

\* a handler that left by one of the exits that raise is caught by data_received
caught(S, c, raising) == IF S.ret \in raising THEN log_error(S, c, S.ret) ELSE S

\* data_received lines 35-39, for one frame: getattr, then the call f(*m[1:])
dispatch(S, c, f) ==
  IF f.verb \notin Handlers THEN log_error(S, c, "AttributeError")
  ELSE IF f.arity = "few" \/ (f.arity = "many" /\ f.verb \notin Variadic)
       THEN log_error(S, c, "TypeError")
  ELSE IF f.verb = "USR"
       THEN caught(m_usr(S, c, 1, f.arg, f.token, f.arity = "many", f.refuse), c, {"refused"})
  ELSE IF f.verb = "ANS"
       THEN m_ans(S, c, 1, f.arg, f.token, 1, f.arity = "many", f.refuse)
  ELSE IF f.verb = "CAL" THEN caught(m_cal(S, c, 1, "u2@x", TRUE, TRUE, TRUE, "ok"), c, {"assert"})
  ELSE IF f.verb = "MSG" THEN caught(m_msg(S, c, 1, "A", f.size, "Chat", TRUE), c, {"assert"})
  ELSE Ret(m_out(S, c), "out")

\* what handling one frame did: the controller before and after, the frames written,
\* whether the controller's session is in its room, whether a session or a token changed
Handled(S, T, c, f) ==
  [f |-> f, ret |-> T.ret, before |-> S.ctl[c], after |-> T.ctl[c],
   wire |-> SubSeq(T.wire, Len(S.wire) + 1, Len(T.wire)),
   calls |-> SubSeq(T.calls, Len(S.calls) + 1, Len(T.calls)),
   rostered |-> T.ctl[c].cs # 0 /\ InRoster(T, T.ctl[c].cs),
   joined |-> Len(T.sessions) > Len(S.sessions),
   taken |-> T.tokens # S.tokens]

\* MSNPCtrl.data_received: the frames of one chunk, one after the other; ret is the
\* record of what each did
RECURSIVE data_received(_, _, _, _)
data_received(S, c, chunk, trace) ==
  IF chunk = <<>> THEN [S EXCEPT !.ret = trace]
  ELSE CHOOSE R \in {data_received(T, c, Tail(chunk), Append(trace, Handled(S, T, c, Head(chunk)))) :
                       T \in {dispatch([S EXCEPT !.ret = ""], c, Head(chunk))}} : TRUE

\* ------------------------------------------------------------- message bodies
\* A body is a sequence of pieces: a header line without its line end, a line end,
\* a piece of text, or a byte that is no UTF-8.
Piece(k, n, v) == [k |-> k, n |-> n, v |-> v]

CRLF == Piece("crlf", "", "")

Hdr(n, v) == Piece("hdr", n, v)

Ch(x) == Piece("ch", "", x)

BadByte == Piece("byte", "", "ff")

MimeVersion == Hdr("MIME-Version", "1.0")

ContentType(v) == Hdr("Content-Type", v)

TextPlain == "text/plain; charset=UTF-8"

MsControl == "text/x-msmsgscontrol"

Datacast == "text/x-msnmsgr-datacast"

P2P == "application/x-msnmsgrp2p"

\* content_type.startswith(prefix), for the values above
startswith(v, prefix) ==
  \/ v = prefix
  \/ prefix = "text/plain" /\ v = TextPlain

Unsupported == <<Ch("(Unsupported MSNP Content-Type)")>>

\* MessageData(sender, type, text), with its front_cache['msnp']
MessageData(sender, type, text, cache) ==
  [sender |-> sender, type |-> type, text |-> text, front_cache |-> cache]

NoCache == [some |-> FALSE, v |-> <<>>]

Cached(b) == [some |-> TRUE, v |-> b]

\* bytes.index / str.index: the first place at or after from where sub begins, 0 for ValueError
index(d, sub, from) ==
  LET at == {i \in from..(Len(d) - Len(sub) + 1) : SubSeq(d, i, i + Len(sub) - 1) = sub}
  IN IF at = {} THEN 0 ELSE CHOOSE i \in at : \A j \in at : i <= j

\* bytes.decode('utf-8') raises
undecodable(d) == \E i \in DOMAIN d : d[i] = BadByte

\* str.strip()
RECURSIVE strip(_)
strip(t) ==
  IF t = <<>> THEN t
  ELSE IF Head(t) = Ch(" ") THEN strip(Tail(t))
  ELSE IF t[Len(t)] = Ch(" ") THEN strip(SubSeq(t, 1, Len(t) - 1))
  ELSE t

\* a header parser for which a missing Content-Type is plain text
content_type_of_default_plain(h, k, linestart) ==
  IF \E i \in DOMAIN h : h[i].k = "hdr" /\ h[i].n = "Content-Type"
  THEN h[CHOOSE i \in DOMAIN h : h[i].k = "hdr" /\ h[i].n = "Content-Type"].v
  ELSE TextPlain

\* str(Parser().parsestr(h).get('Content-Type')): header lines are read up to the
\* first line that is blank or no header; a line that begins with a blank continues
\* the line before it
RECURSIVE content_type_of(_, _, _)
content_type_of(h, k, linestart) ==
  IF k > Len(h) THEN "None"
  ELSE IF ~linestart THEN content_type_of(h, k + 1, h[k] = CRLF)
  ELSE IF h[k] = CRLF THEN "None"
  ELSE IF h[k].k = "hdr" /\ h[k].n = "Content-Type" THEN h[k].v
  ELSE IF h[k].k = "hdr" \/ h[k] \in {Ch(" "), Ch("ID:")} THEN content_type_of(h, k + 1, FALSE)
  ELSE "None"

\* a test of the datacast id that takes every id for a nudge
is_nudge_any(id) == TRUE

\* line 369: id is '1'; a one-character string is the interpreter's one object for it
is_nudge(id) == id = <<Ch("1")>>

\* a decoder that leaves the message's cache empty
front_cache_empty(data) == NoCache

\* line 390: message.front_cache['msnp'] = data
front_cache_msnp(data) == Cached(data)

\* messagedata_from_msnp
messagedata_from_msnp(sender, sender_pop_id, data) ==
  LET at == index(data, <<CRLF, CRLF>>, 1)
      i == at + 1
      head == SubSeq(data, 1, i)
      body_raw == SubSeq(data, i + 1, Len(data))
      content_type == content_type_of(head, 1, TRUE)
      id_start == index(body_raw, <<Ch("ID:")>>, 1) + 1
      id_end == index(body_raw, <<CRLF>>, id_start)
      id == strip(SubSeq(body_raw, id_start, id_end - 1))
      raised == \/ at = 0
                \/ undecodable(head)
                \/ /\ startswith(content_type, Datacast)
                   /\ (undecodable(body_raw) \/ id_start = 1 \/ id_end = 0)
                \/ /\ startswith(content_type, "text/plain")
                   /\ undecodable(body_raw)
      made == IF raised THEN [type |-> "Chat", text |-> Unsupported]
              ELSE IF startswith(content_type, MsControl) THEN [type |-> "Typing", text |-> <<>>]
              ELSE IF startswith(content_type, Datacast)
                   THEN IF is_nudge(id) THEN [type |-> "Nudge", text |-> <<>>]
                        ELSE [type |-> "Chat", text |-> Unsupported]
              ELSE IF startswith(content_type, "text/plain") THEN [type |-> "Chat", text |-> body_raw]
              ELSE [type |-> "Chat", text |-> Unsupported]
  IN MessageData(sender, made.type, made.text, front_cache_msnp(data))

\* a Chat body whose header is not closed by a blank line
msnp_body_unterminated(data) ==
  IF data.type = "Typing"
  THEN <<MimeVersion, CRLF, ContentType(MsControl), CRLF,
         Hdr("TypingUser", UserEmail(data.sender)), CRLF, CRLF, CRLF>>
  ELSE IF data.type = "Nudge"
  THEN <<MimeVersion, CRLF, ContentType(Datacast), CRLF, CRLF, Ch("ID:"), Ch(" "), Ch("1"), CRLF, CRLF>>
  ELSE <<MimeVersion, CRLF, ContentType(TextPlain), CRLF>> \o data.text

\* the body that messagedata_to_msnp computes for a message it has no body for
msnp_body(data) ==
  IF data.type = "Typing"
  THEN <<MimeVersion, CRLF, ContentType(MsControl), CRLF,
         Hdr("TypingUser", UserEmail(data.sender)), CRLF, CRLF, CRLF>>
  ELSE IF data.type = "Nudge"
  THEN <<MimeVersion, CRLF, ContentType(Datacast), CRLF, CRLF, Ch("ID:"), Ch(" "), Ch("1"), CRLF, CRLF>>
  ELSE <<MimeVersion, CRLF, ContentType(TextPlain), CRLF, CRLF>> \o data.text

\* an encoder that computes the body on every call
messagedata_to_msnp_uncached(data) ==
  IF data.type \notin {"Typing", "Nudge", "Chat"}
  THEN [raised |-> TRUE, computed |-> FALSE, bytes |-> <<>>, data |-> data]
  ELSE [raised |-> FALSE, computed |-> TRUE, bytes |-> msnp_body(data),
        data |-> [data EXCEPT !.front_cache = Cached(msnp_body(data))]]

\* messagedata_to_msnp: the bytes returned, the message with its cache, and whether
\* the body was computed by this call or ValueError was raised
messagedata_to_msnp(data) ==
  IF data.front_cache.some
  THEN [raised |-> FALSE, computed |-> FALSE, bytes |-> data.front_cache.v, data |-> data]
  ELSE IF data.type \notin {"Typing", "Nudge", "Chat"}
  THEN [raised |-> TRUE, computed |-> FALSE, bytes |-> <<>>, data |-> data]
  ELSE [raised |-> FALSE, computed |-> TRUE, bytes |-> msnp_body(data),
        data |-> [data EXCEPT !.front_cache = Cached(msnp_body(data))]]

\* ------------------------------------------------------------- offline messages
\* recipient uuids, the uuids that gen_uuid().upper() may give, message texts
Recipients == {"r1", "r2"}

OimIds == {"A", "B"}

OimTexts == {"hi", "yo"}

\* a path of storage/oim/<recipient> that is no file, and the file that save_oim writes
NoFile == [is_file |-> FALSE, text |-> "", is_read |-> FALSE]

File(text) == [is_file |-> TRUE, text |-> text, is_read |-> FALSE]

NoOims == [r \in Recipients |-> [id \in OimIds |-> NoFile]]

\* what the getters return: None, an exception, an OIM
None == [kind |-> "none", uuid |-> "", text |-> ""]

Raised == [kind |-> "raised", uuid |-> "", text |-> ""]

OIM(uuid, text) == [kind |-> "oim", uuid |-> uuid, text |-> text]

\* the test of get_oim_single that returns None: `if oim_path.is_file(): return None`
not_found(f) == f.is_file

\* UserService.get_oim_single; read_text raises on a path that is no file, and a
\* file that save_oim wrote holds a dict
get_oim_single(D, r, uuid, mark_read) ==
  LET f == D[r][uuid]
  IN IF not_found(f) THEN [store |-> D, ret |-> None]
     ELSE IF ~f.is_file THEN [store |-> D, ret |-> Raised]
     ELSE [store |-> IF mark_read THEN [D EXCEPT ![r][uuid].is_read = TRUE] ELSE D,
           ret |-> OIM(uuid, f.text)]

\* UserService.get_oim_batch: the files of the recipient's directory, those skipped
\* for which get_oim_single gives None
get_oim_batch(D, r) ==
  {get_oim_single(D, r, id, FALSE).ret : id \in {i \in OimIds : D[r][i].is_file}} \ {None}

\* UserService.save_oim with gen_uuid().upper() = uuid: nothing is written over a file
save_oim(D, r, uuid, text) ==
  IF D[r][uuid].is_file THEN [store |-> D, ret |-> "collision"]
  ELSE [store |-> [D EXCEPT ![r][uuid] = File(text)], ret |-> "saved"]

\* UserService.delete_oim
delete_oim(D, r, uuid) ==
  IF ~D[r][uuid].is_file THEN [store |-> D, ret |-> "missing"]
  ELSE [store |-> [D EXCEPT ![r][uuid] = NoFile], ret |-> "deleted"]

\* ------------------------------------------------------------- the IRC front-end
\* IRC connections that have logged in, their backend sessions, the channels they name
IrcCtrls == {"i1", "i2"}

IrcBs(c) == IF c = "i1" THEN "b1" ELSE "b3"

Channels == {"#a", "#b"}

\* IRCCtrl.__init__ of every connection, and a chat registry without rooms
NewIrc == [chats |-> {},
           roster |-> [ch \in Channels |-> <<>>],
           sessions |-> <<>>,
           chat_sessions |-> [c \in IrcCtrls |-> [ch \in Channels |-> 0]]]

\* the state an IRC handler starts from
IrcSt(I) == [chats |-> I.chats, roster |-> I.roster, sessions |-> I.sessions,
             chat_sessions |-> I.chat_sessions, wire |-> <<>>, ret |-> ""]

\* the other sessions of i's user in i's room
irc_same_user(I, i) ==
  {j \in Range(I.roster[I.sessions[i].chat]) : j # i /\ CsUser(I, j) = CsUser(I, i)}

\* Backend.chat_get('irc', channel), and chat_create with add_id when there is none
irc_chat(I, channel) == IF channel \in I.chats THEN I ELSE [I EXCEPT !.chats = @ \cup {channel}]

\* Chat.join with the IRC front-end's handler
irc_join(I, channel, c) ==
  LET i == Len(I.sessions) + 1
  IN [I EXCEPT !.sessions = Append(@, [chat |-> channel, bs |-> IrcBs(c), ctrl |-> c]),
               !.roster[channel] = Append(@, i)]

RECURSIVE irc_fanout_joined(_, _, _, _)
irc_fanout_joined(I, q, cs, first_pop) ==
  IF q = <<>> THEN I
  ELSE irc_fanout_joined(IF Head(q) = cs THEN I
                         ELSE irc_on_participant_joined(I, I.sessions[Head(q)].ctrl,
                                                        I.sessions[cs].chat, cs, first_pop),
                         Tail(q), cs, first_pop)

\* Chat.send_participant_joined in a room of IRC members
irc_send_participant_joined(I, cs) ==
  irc_fanout_joined(I, I.roster[I.sessions[cs].chat], cs, irc_same_user(I, cs) = {})

\* the emails of chat.get_roster_single()
RECURSIVE irc_names(_, _)
irc_names(I, q) ==
  IF q = <<>> THEN <<>> ELSE <<UserEmail(CsUser(I, Head(q)))>> \o irc_names(I, Tail(q))

\* IRCCtrl._channel_to_chatsession: self.chat_sessions.get(chat)
irc_channel_to_chatsession(I, c, channel) == I.chat_sessions[c][channel]

\* IRCCtrl._m_join; refuse: Chat.join raises
irc_m_join(I0, c, channel, refuse) ==
  LET I == irc_chat(I0, channel)
      cs == irc_channel_to_chatsession(I, c, channel)
      new == Len(I.sessions) + 1
      I1 == irc_join(I, channel, c)
      I2 == irc_send_participant_joined(I1, new)
      I3 == [I2 EXCEPT !.chat_sessions[c][channel] = new]
      I4 == IF cs = 0 THEN I3 ELSE I
  IN IF cs = 0 /\ refuse THEN Ret(I, "raised")
     ELSE Ret(send_reply(I4, c, "353", 0,
                         <<UserEmail(BsUser(IrcBs(c))), "=", channel, irc_names(I4, I4.roster[channel])>>),
              IF cs = 0 THEN "joined" ELSE "present")

\* a handler that keeps the entry of the room
irc_on_close_keep_entry(I, i) == I

\* the IRC front-end's ChatEventHandler.on_close: self.ctrl.chat_sessions.pop(self.cs.chat, None)
irc_on_close(I, i) == [I EXCEPT !.chat_sessions[I.sessions[i].ctrl][I.sessions[i].chat] = 0]

RECURSIVE irc_fanout_left(_, _, _, _, _)
irc_fanout_left(I, q, cs, idle, last_pop) ==
  IF q = <<>> THEN I
  ELSE irc_fanout_left(irc_on_participant_left(I, I.sessions[Head(q)].ctrl, I.sessions[cs].chat,
                                               cs, idle, last_pop),
                       Tail(q), cs, idle, last_pop)

\* ChatSession.close in a room of IRC members
irc_ChatSession_close(I, i, idle) ==
  LET ch == I.sessions[i].chat
  IN IF i \notin Range(I.roster[ch]) THEN I
     ELSE LET I1 == [I EXCEPT !.roster[ch] = SelectSeq(@, LAMBDA j : j # i)]
              I2 == irc_on_close(I1, i)
          IN irc_fanout_left(I2, I2.roster[ch], i, idle, irc_same_user(I2, i) = {})

\* IRCCtrl._m_part: the asserts of _channel_to_chatsession and of the handler raise
irc_m_part(I, c, channel) ==
  IF channel \notin I.chats THEN Ret(I, "raised")
  ELSE LET cs == irc_channel_to_chatsession(I, c, channel)
       IN IF cs = 0 THEN Ret(I, "raised")
          ELSE Ret(send_reply(irc_ChatSession_close(I, cs, FALSE), c, "PART", 0,
                              <<channel, UserEmail(BsUser(IrcBs(c)))>>),
                   "parted")


\* ------------------------------------------------------------- the bot
\* who writes to the bot's room: a user, another bot, a user of a domain that only
\* ends like the bots'
Senders ==
  {[local |-> "u1", domain |-> "x"], [local |-> "test", domain |-> "bot.log1p.xyz"],
   [local |-> "u2", domain |-> "notbot.log1p.xyz"]}

BotTypes == {"Chat", "Typing", "Nudge"}

BotTexts == {"hi", "yo"}

BotInbox == [type : BotTypes, sender : Senders, text : BotTexts]

NoMessage == [type |-> "", sender |-> [local |-> "", domain |-> ""], text |-> ""]

\* no step of the bot yet; a step records its message, its exit, and the tasks, the
\* messages sent and the flag before it
NoStep == [op |-> "", ret |-> "", message |-> NoMessage,
           tasks |-> <<>>, out |-> <<>>, sending |-> FALSE]

\* ChatEventHandler.__init__ of the bot: _sending = False; no task, nothing sent
NewBot == [sending |-> FALSE, tasks |-> <<>>, out |-> <<>>, seen |-> 0, step |-> NoStep]

\* message.sender.email.endswith('@bot.log1p.xyz')
bot_domain(sender) == sender.domain = "bot.log1p.xyz"

\* a handler that takes every message while a reply is pending
busy_never(B) == FALSE

\* on_message lines 118-119: if self._sending: return
busy(B) == B.sending

\* the bot's ChatEventHandler.on_message: the Typing message is sent, the task that
\* will send the reply is created
bot_on_message(B, message) ==
  IF message.type # "Chat" THEN B
  ELSE IF busy(B) THEN B
  ELSE IF bot_domain(message.sender) THEN B
  ELSE [B EXCEPT !.sending = TRUE,
                 !.out = Append(@, [type |-> "Typing", to |-> "", text |-> ""]),
                 !.tasks = Append(@, [type |-> "Chat", to |-> message.sender.local,
                                      text |-> message.text])]

\* the bot's ChatEventHandler._send_delayed after its sleep, for the oldest task
bot_send_delayed(B) ==
  [B EXCEPT !.out = Append(@, Head(B.tasks)), !.tasks = Tail(@), !.sending = FALSE]

\* ------------------------------------------------------------- the front-ends at rest

\* MSNPReader.__init__, and nothing on its way; made holds, for each chunk on its
\* way, what data_received will make of it
NewReader == [data |-> <<>>, inflight |-> <<>>, made |-> <<>>, out |-> <<>>, raised |-> FALSE,
              wedge |-> FALSE, sent |-> 0]

FrontsIdle ==
  /\ oims = NoOims
  /\ irc = NewIrc
  /\ bot = NewBot
  /\ reader = NewReader

\* ------------------------------------------------------------- actions
Dialects == {14, 18}

Init ==
  /\ now = 0
  /\ tokens = [t \in TokenIds |-> FreeToken]
  /\ roster = <<>>
  /\ sessions = <<>>
  /\ ctl = [c \in Ctrls |-> NewCtrl]
  /\ FrontsIdle
  /\ last = NoOp

\* the step of operation op on controller c that takes the state to S
Commit(S, op, c) ==
  /\ ctl' = S.ctl
  /\ tokens' = S.tokens
  /\ roster' = S.roster
  /\ sessions' = S.sessions
  /\ last' = IF S.ret = "" THEN NoOp ELSE [op |-> op, c |-> c, ret |-> S.ret]
  /\ now' = now
  /\ UNCHANGED fronts

\* MSNPCtrl.data_received: frames reach a controller whose transport is open
Receiving(c) == ctl[c].conn = "open" /\ ~ctl[c].closed

\* MSNPCtrlSB.on_connect; connections are accepted in the order c1, c2
on_connect(c) ==
  /\ ctl[c].conn = "new"
  /\ \A o \in Ctrls : ctl[o].conn = "new" => Ord(c) <= Ord(o)
  /\ Commit([St EXCEPT !.ctl[c].conn = "open", !.ctl[c].counter_task = "pending"], "connect", c)

\* auth_service.create_token, by the notification server, before the clock moves
create_token(t, ns, b, dialect, ch) ==
  /\ tokens[t].state = "free"
  /\ \A u \in TokenIds : u < t => tokens[u].state # "free"
  /\ ns = "sb/xfr" => ch = 0
  /\ dialect = BsDialect(b)
  /\ now = 0
  /\ Commit([St EXCEPT !.tokens[t] = [state |-> "live", ns |-> ns, bs |-> b, dialect |-> dialect,
                                       chat |-> ch, expiry |-> now]], "token", "")

Tick(t) ==
  /\ t > now
  /\ now' = t
  /\ last' = NoOp
  /\ UNCHANGED <<tokens, roster, sessions, ctl, fronts>>

\* the frame passes the checks that stand before chat.join
usr_reaches_join(c, arg, token) ==
  /\ get_token(St, "sb/xfr", token).state = "live"
  /\ ~identity_mismatch(get_token(St, "sb/xfr", token).bs, get_token(St, "sb/xfr", token).dialect,
                        arg.email, arg.pop)

ans_reaches_join(c, arg, token, sessid) ==
  LET data == get_token(St, "sb/cal", token)
  IN /\ data.state = "live"
     /\ ~is_stale(data.expiry)
     /\ ~identity_mismatch(data.bs, data.dialect, arg.email, arg.pop)
     /\ ~wrong_room(data.chat, sessid)

\* a USR frame; bad: there is an argument too many (len(args) > 0)
USR(c, trid, arg, token, bad, refuse) ==
  /\ Receiving(c)
  /\ bad => trid = 1 /\ arg = NoArg /\ token = 1
  /\ ~bad => arg # NoArg
  /\ refuse => ~bad /\ usr_reaches_join(c, arg, token)
  /\ Commit(m_usr(St, c, trid, arg, token, bad, refuse), "USR", c)

\* an ANS frame
ANS(c, trid, arg, token, sessid, bad, refuse) ==
  /\ Receiving(c)
  /\ bad => trid = 1 /\ arg = NoArg /\ token = 1 /\ sessid = 1
  /\ ~bad => arg # NoArg
  /\ refuse => ~bad /\ ans_reaches_join(c, arg, token, sessid)
  /\ Commit(m_ans(St, c, trid, arg, token, sessid, bad, refuse), "ANS", c)

\* an OUT frame
OUT(c) ==
  /\ Receiving(c)
  /\ Commit(m_out(St, c), "OUT", c)

\* the sleep of c's timer task is over
Timer(c) ==
  /\ ctl[c].counter_task = "pending"
  /\ Commit(conn_auth_limit_counter(St, c), "timer", c)

Args == ([email : Emails, pop : PopForms]) \cup {NoArg}

Next ==
  \/ \E c \in Pair : on_connect(c)
  \/ \E t \in TokenIds, ns \in {"sb/xfr", "sb/cal"}, b \in Sessions, d \in Dialects,
        ch \in 0..Len(roster) : create_token(t, ns, b, d, ch)
  \/ \E t \in Instants : Tick(t)
  \/ \E c \in Pair, trid \in TrIds, arg \in Args, token \in TokenIds,
        bad \in BOOLEAN, refuse \in BOOLEAN : USR(c, trid, arg, token, bad, refuse)
  \/ \E c \in Pair, trid \in TrIds, arg \in Args, token \in TokenIds, sessid \in TokenIds,
        bad \in BOOLEAN, refuse \in BOOLEAN : ANS(c, trid, arg, token, sessid, bad, refuse)
  \/ \E c \in Pair : OUT(c)
  \/ \E c \in Pair : Timer(c)

Spec == Init /\ [][Next]_vars

\* ------------------------------------------------------------- the room specification
\* the identity argument a well-behaved client of session b sends
RoomArg(b) ==
  [email |-> UserEmail(BsUser(b)),
   pop |-> IF b = "b1" THEN Pop(<<"{", "A", "}">>)
           ELSE IF b = "b2" THEN Pop(<<"{", "b", "}">>) ELSE NoPop]

\* auth_service.create_token once the consumed token has left the store
renew_token(t, ns, b, ch) ==
  /\ tokens[t].state = "used"
  /\ ns = "sb/xfr" => ch = 0
  /\ Commit([St EXCEPT !.tokens[t] = [state |-> "live", ns |-> ns, bs |-> b,
                                       dialect |-> BsDialect(b), chat |-> ch, expiry |-> now]],
            "token", "")

\* the notification server hands session b a token for room ch (0: a room to be made)
RoomIssue(b, ch) ==
  /\ Len(sessions) < MaxSessions
  /\ \A i \in DOMAIN sessions : sessions[i].bs = b => ~InRoster(St, i)
  /\ ch = 0 <=> roster = <<>>
  /\ LET ns == IF ch = 0 THEN "sb/xfr" ELSE "sb/cal"
     IN \/ create_token(1, ns, b, BsDialect(b), ch)
        \/ renew_token(1, ns, b, ch)

\* a MSG frame
MSG(c, trid, ack, size, kind, delivered) ==
  /\ Receiving(c)
  /\ Commit(m_msg(St, c, trid, ack, size, kind, delivered), "MSG", c)

\* a CAL frame
CAL(c, trid, target, detail, loaded, offlineish, outcome) ==
  /\ Receiving(c)
  /\ Commit(m_cal(St, c, trid, target, detail, loaded, offlineish, outcome), "CAL", c)

\* clients that hand off once per connection, with the token they were given
NextRoom ==
  \/ \E c \in Ctrls : on_connect(c)
  \/ \E b \in RoomSessions, ch \in 0..Len(roster) : RoomIssue(b, ch)
  \/ \E c \in Ctrls :
       /\ ctl[c].cs = 0
       /\ tokens[1].state = "live"
       /\ tokens[1].ns = "sb/xfr"
       /\ USR(c, 1, RoomArg(tokens[1].bs), 1, FALSE, FALSE)
  \/ \E c \in Ctrls :
       /\ ctl[c].cs = 0
       /\ tokens[1].state = "live"
       /\ tokens[1].ns = "sb/cal"
       /\ ANS(c, 1, RoomArg(tokens[1].bs), 1, tokens[1].chat, FALSE, FALSE)
  \/ \E c \in Ctrls : ctl[c].cs # 0 /\ OUT(c)
  \/ \E c \in Ctrls, ack \in AckModes, size \in Sizes : MSG(c, 1, ack, size, "Chat", TRUE)
  \/ \E c \in Ctrls, target \in Targets, outcome \in {"ok", "ContactAlreadyOnList"} :
       CAL(c, 1, target, TRUE, TRUE, TRUE, outcome)

SpecRoom == Init /\ [][NextRoom]_vars

\* ------------------------------------------------------------- the codec specification
\* sequences over P of length at most n
UpTo(P, n) == UNION {[1..k -> P] : k \in 0..n}

\* lines, each with its line end
RECURSIVE Lines(_)
Lines(q) == IF q = <<>> THEN <<>> ELSE <<Head(q), CRLF>> \o Lines(Tail(q))

HeaderLines ==
  {MimeVersion, ContentType(TextPlain), ContentType(MsControl), ContentType(Datacast),
   ContentType(P2P), Ch("h"), BadByte}

BodyPieces == {Ch("h"), CRLF, Ch("ID:"), Ch(" "), Ch("1"), Ch("2"), BadByte}

\* what a client may send as the payload of a MSG: header lines, the blank line or
\* none, and a body
ByteStrings ==
  {Lines(h) \o e \o b : h \in UpTo(HeaderLines, MaxLines), e \in {<<>>, <<CRLF>>},
                         b \in UpTo(BodyPieces, MaxBody)}

TextPieces == {Ch("h"), Ch("i"), CRLF, ContentType(MsControl)}

MessageTypes == {"Chat", "Typing", "Nudge", "TypingDone"}

\* the messages that another front-end hands to the room
Messages ==
  {MessageData(u, t, x, NoCache) : u \in {"u1", "u2"}, t \in MessageTypes, x \in UpTo(TextPieces, MaxText)}

\* ChatEventHandler.on_message of n recipients in turn, on one message object:
\* the bodies written, and how many of them were computed
RECURSIVE fan_out(_, _)
fan_out(data, n) ==
  IF n = 0 \/ data.type = "TypingDone" THEN [bodies |-> <<>>, computed |-> 0, data |-> data]
  ELSE LET prev == fan_out(data, n - 1)
           r == messagedata_to_msnp(prev.data)
       IN [bodies |-> Append(prev.bodies, r.bytes),
           computed |-> prev.computed + IF r.computed THEN 1 ELSE 0,
           data |-> r.data]

Pure(op, in, out) ==
  /\ last' = [op |-> op, c |-> in, ret |-> out]
  /\ UNCHANGED <<switchboard, fronts>>

InitCodec ==
  /\ now = 0
  /\ tokens = [t \in TokenIds |-> FreeToken]
  /\ roster = <<>>
  /\ sessions = <<>>
  /\ ctl = [c \in Ctrls |-> NewCtrl]
  /\ FrontsIdle
  /\ \/ \E d \in ByteStrings : last = [op |-> "bytes", c |-> d, ret |-> <<>>]
     \/ \E m \in Messages : last = [op |-> "message", c |-> m, ret |-> <<>>]

\* _m_msg decodes the payload of u1's client
Decode ==
  /\ last.op = "bytes"
  /\ Pure("decoded", last.c, messagedata_from_msnp("u1", NoPop, last.c))

\* a first encode of a message
Encode ==
  /\ last.op = "message"
  /\ Pure("encoded", last.c, messagedata_to_msnp(last.c))

\* the recipient's client decodes what was encoded
Redecode ==
  /\ last.op = "encoded"
  /\ ~last.ret.raised
  /\ Pure("redecoded", last.c, messagedata_from_msnp(last.c.sender, NoPop, last.ret.bytes))

\* the room hands a message, decoded or not, to n recipients
FanOut(n) ==
  /\ last.op \in {"message", "decoded"}
  /\ LET data == IF last.op = "message" THEN last.c ELSE last.ret
     IN Pure("fanout", data, fan_out(data, n))

NextCodec ==
  \/ Decode
  \/ Encode
  \/ Redecode
  \/ \E n \in 1..MaxRecipients : FanOut(n)

SpecCodec == InitCodec /\ [][NextCodec]_vars

\* ------------------------------------------------------------- the frame specification
\* the frames that the client of session b1 sends: handoffs with the one token, well
\* framed or not, a message, an invite, OUT, and a verb without handler
Frames ==
  {Frame(v, "ok", RoomArg("b1"), 1, FALSE, 1) : v \in Variadic}
    \cup {Frame("USR", "ok", RoomArg("b1"), 1, TRUE, 1)}
    \cup {Frame(v, a, NoArg, 1, FALSE, 1) : v \in Variadic, a \in {"few", "many"}}
    \cup {Frame(v, "ok", NoArg, 1, FALSE, 1) : v \in {"MSG", "CAL", "OUT", "XYZ"}}

\* the frames of the peer, session b3, on the other connection
PeerFrames ==
  {Frame(v, "ok", RoomArg("b3"), 1, FALSE, 1) : v \in Variadic}
    \cup {Frame(v, "ok", NoArg, 1, FALSE, 1) : v \in {"MSG", "OUT"}}

\* the chunks that the transport of c delivers: one frame or more on the first
\* connection, one frame of the peer on the other
Chunks(c) == IF c = "c1" THEN UpTo(Frames, MaxChunk) \ {<<>>} ELSE {<<f>> : f \in PeerFrames}

\* the notification server hands session b a token for room ch (0: a room to be made)
HandOut(b, ch) ==
  /\ Len(sessions) < MaxSessions
  /\ Len(roster) < MaxRooms
  /\ LET ns == IF ch = 0 THEN "sb/xfr" ELSE "sb/cal"
     IN \/ create_token(1, ns, b, BsDialect(b), ch)
        \/ renew_token(1, ns, b, ch)

\* MSNPCtrl.data_received of one chunk
Chunk(c, chunk) ==
  /\ Receiving(c)
  /\ \E S \in {data_received(St, c, chunk, <<>>)} :
        /\ ctl' = S.ctl
        /\ tokens' = S.tokens
        /\ roster' = S.roster
        /\ sessions' = S.sessions
        /\ last' = [op |-> "chunk", c |-> c, ret |-> S.ret]
        /\ now' = now
        /\ UNCHANGED fronts

\* the backend closes chat session i, idle or not; the close event of the session
\* reaches a controller that is open ("evicted") or one that was closed before ("late")
Evict(i, idle) ==
  /\ i \in DOMAIN sessions
  /\ InRoster(St, i)
  /\ Commit(Ret(ChatSession_close(St, i, idle),
                IF ctl[sessions[i].ctrl].closed THEN "late" ELSE "evicted"),
            "evict", sessions[i].ctrl)

NextFrames ==
  \/ \E c \in Pair : on_connect(c)
  \/ \E b \in Sessions, ch \in 0..Len(roster) : HandOut(b, ch)
  \/ \E c \in Pair : \E chunk \in Chunks(c) : Chunk(c, chunk)
  \/ \E c \in Pair : Timer(c)
  \/ \E i \in 1..MaxSessions, idle \in BOOLEAN : Evict(i, idle)

SpecFrames == Init /\ [][NextFrames]_vars

\* ------------------------------------------------------------- wire framing
\* Bytes are one-character strings; Cr, Lf and NonUtf8 stand for \r, \n and a byte
\* that is no UTF-8. A token is a sequence of characters.
Cr == "<CR>"

Lf == "<LF>"

Sp == " "

NonUtf8 == "<FF>"

\* the characters that str.strip() and str.split() take for white space
Whitespace == {Sp, Cr, Lf}

\* _PAYLOAD_COMMANDS
PAYLOAD_COMMANDS ==
  {<<"U", "U", "X">>, <<"M", "S", "G">>, <<"Q", "R", "Y">>, <<"N", "O", "T">>,
   <<"A", "D", "L">>, <<"F", "Q", "Y">>, <<"R", "M", "L">>, <<"U", "U", "N">>,
   <<"U", "U", "M">>, <<"P", "U", "T">>, <<"D", "E", "L">>, <<"S", "D", "G">>}

\* the value of a decimal digit
DigitOf ==
  ("0" :> 0) @@ ("1" :> 1) @@ ("2" :> 2) @@ ("3" :> 3) @@ ("4" :> 4) @@ ("5" :> 5)
    @@ ("6" :> 6) @@ ("7" :> 7) @@ ("8" :> 8) @@ ("9" :> 9)

\* int(x) raises no ValueError: x is a run of digits (the bytes here have no sign)
is_int(x) == x # <<>> /\ \A i \in DOMAIN x : x[i] \in DOMAIN DigitOf

\* int(x)
RECURSIVE int(_)
int(x) == IF x = <<>> THEN 0 ELSE 10 * int(SubSeq(x, 1, Len(x) - 1)) + DigitOf[x[Len(x)]]

\* str(n) of a length
RECURSIVE str(_)
str(n) ==
  LET d == CHOOSE c \in DOMAIN DigitOf : DigitOf[c] = n % 10
  IN IF n < 10 THEN <<d>> ELSE Append(str(n \div 10), d)

\* d.find(b, 0): the first position of byte b, 0 where Python has -1
find(d, b) ==
  IF \E i \in DOMAIN d : d[i] = b
  THEN CHOOSE i \in DOMAIN d : d[i] = b /\ \A j \in 1..(i - 1) : d[j] # b
  ELSE 0

\* str.strip()
strip_ws(x) ==
  LET ink == {i \in DOMAIN x : x[i] \notin Whitespace}
      lo == CHOOSE i \in ink : \A j \in ink : i <= j
      hi == CHOOSE i \in ink : \A j \in ink : j <= i
  IN IF ink = {} THEN <<>> ELSE SubSeq(x, lo, hi)

\* str.split(): the runs of characters between white space
RECURSIVE split(_)
split(x) ==
  IF x = <<>> THEN <<>>
  ELSE IF Head(x) \in Whitespace THEN split(Tail(x))
  ELSE LET n == CHOOSE k \in 1..Len(x) :
                  /\ \A j \in 1..k : x[j] \notin Whitespace
                  /\ k = Len(x) \/ x[k + 1] \in Whitespace
       IN <<SubSeq(x, 1, n)>> \o split(SubSeq(x, n + 1, Len(x)))

HexDigits == DOMAIN DigitOf \cup {"a", "b", "c", "d", "e", "f", "A", "B", "C", "D", "E", "F"}

\* the character that a percent escape stands for
Unhex(h, l) ==
  IF <<h, l>> = <<"2", "0">> THEN Sp
  ELSE IF <<h, l>> = <<"2", "5">> THEN "%"
  ELSE IF <<h, l>> = <<"3", "1">> THEN "1"
  ELSE IF <<h, l>> = <<"6", "1">> THEN "a"
  ELSE "<other>"

\* urllib.parse.unquote
RECURSIVE unquote(_)
unquote(x) ==
  IF x = <<>> THEN <<>>
  ELSE IF Head(x) = "%" /\ Len(x) >= 3 /\ x[2] \in HexDigits /\ x[3] \in HexDigits
       THEN <<Unhex(x[2], x[3])>> \o unquote(SubSeq(x, 4, Len(x)))
  ELSE <<Head(x)>> \o unquote(Tail(x))

\* the payload is handed over although its bytes have not all arrived
complete_always(d, e, n) == TRUE

\* _msnp_try_decode line 158: assert e+n <= len(d)
complete(d, e, n) == e + n <= Len(d)

\* _msnp_try_decode at index 0; "wait" is the AssertionError, "raise" another
\* exception
msnp_try_decode(d) ==
  LET e == find(d, Lf)
      line == SubSeq(d, 1, e)
      m_str == strip_ws(line)
      m == split(m_str)
      n == int(m[Len(m)])
      none == [status |-> "wait", m |-> <<>>, body |-> <<>>, e |-> 0]
  IN IF e = 0 THEN none
     ELSE IF \E i \in DOMAIN line : line[i] = NonUtf8 THEN [none EXCEPT !.status = "raise"]
     ELSE IF Len(m_str) <= 1 THEN none
     ELSE IF m[1] \notin PAYLOAD_COMMANDS THEN [status |-> "ok", m |-> m, body |-> <<>>, e |-> e]
     ELSE IF ~is_int(m[Len(m)]) THEN [none EXCEPT !.status = "raise"]
     ELSE IF ~complete(d, e, n) THEN none
     ELSE [status |-> "ok", m |-> SubSeq(m, 1, Len(m) - 1),
           body |-> SubSeq(d, e + 1, IF e + n <= Len(d) THEN e + n ELSE Len(d)), e |-> e + n]

\* a frame as the reader yields it: the tokens, the payload if there is one, and the
\* number of bytes that it took from the buffer
Yield(m, body, e) == [m |-> m, body |-> body, e |-> e]

\* MSNPReader._read_msnp on the buffer data: the frame and the buffer that is left
read_msnp(data) ==
  LET r == msnp_try_decode(data)
  IN [status |-> r.status,
      m |-> Yield([i \in DOMAIN r.m |-> unquote(r.m[i])],
                  IF r.body # <<>> THEN Cached(r.body) ELSE NoCache, r.e),
      data |-> IF r.status = "ok" THEN SubSeq(data, r.e + 1, Len(data)) ELSE data]

\* the loop of MSNPReader.data_received: the frames yielded, the buffer that is
\* left, and whether an exception ended the loop
RECURSIVE drain(_, _)
drain(data, out) ==
  IF data = <<>> THEN [data |-> data, out |-> out, raised |-> FALSE]
  ELSE CHOOSE x \in {IF r.status = "ok" THEN drain(r.data, Append(out, r.m))
                     ELSE [data |-> data, out |-> out, raised |-> r.status = "raise"] :
                     r \in {read_msnp(data)}} : TRUE

\* MSNPReader.data_received for each chunk in turn, from an empty buffer: what each
\* chunk yields
RECURSIVE deliver(_, _, _)
deliver(data, chunks, outs) ==
  IF chunks = <<>> THEN outs
  ELSE CHOOSE x \in {deliver(r.data, Tail(chunks), Append(outs, r)) :
                     r \in {drain(data \o Head(chunks), <<>>)}} : TRUE

\* MSNPWriter.write line 84: str(x).replace(' ', '%20')
RECURSIVE replace_space(_)
replace_space(x) ==
  IF x = <<>> THEN <<>>
  ELSE (IF Head(x) = Sp THEN <<"%", "2", "0">> ELSE <<Head(x)>>) \o replace_space(Tail(x))

\* ' '.join(mt)
RECURSIVE join_tokens(_)
join_tokens(mt) ==
  IF mt = <<>> THEN <<>>
  ELSE IF Len(mt) = 1 THEN mt[1]
  ELSE mt[1] \o <<Sp>> \o join_tokens(Tail(mt))

\* MSNPWriter.write of the verb and tokens m with the payload data, if any, as last
\* element, followed by flush: the bytes written
write(m, data) ==
  LET mm == IF data.some THEN Append(m, str(Len(data.v))) ELSE m
      mt == [i \in DOMAIN mm |-> replace_space(mm[i])]
  IN join_tokens(mt) \o <<Cr, Lf>> \o (IF data.some THEN data.v ELSE <<>>)

\* ------------------------------------------------------------- the wire specification
\* frames as a client writes them: OUT, a message whose payload reads like a
\* command, a message whose payload is no UTF-8, a message without payload bytes,
\* a token with an escaped space, a line that ends with a bare line feed
WellFormed ==
  {<<"O", "U", "T", Cr, Lf>>,
   <<"M", "S", "G", Sp, "5", Cr, Lf, "O", "U", "T", Cr, Lf>>,
   <<"M", "S", "G", Sp, "1", Cr, Lf, NonUtf8>>,
   <<"M", "S", "G", Sp, "0", Cr, Lf>>,
   <<"C", "A", "L", Sp, "a", "%", "2", "0", "b", Cr, Lf>>,
   <<"O", "U", "T", Lf>>}

\* an empty line, and a payload command whose length is no number
IllFormed == {<<Cr, Lf>>, <<"M", "S", "G", Sp, "x", Cr, Lf>>}

RECURSIVE Flat(_)
Flat(q) == IF q = <<>> THEN <<>> ELSE Head(q) \o Flat(Tail(q))

\* byte streams of up to MaxFrames frames
StreamsOf(F) == {Flat(q) : q \in UpTo(F, MaxFrames) \ {<<>>}}

\* up to MaxCuts places where a transport may cut the stream x
Cuts(x) == {K \in SUBSET (1..(Len(x) - 1)) : Cardinality(K) <= MaxCuts}

\* the chunks of x cut after the positions K
RECURSIVE Split(_, _)
Split(x, K) ==
  IF K = {} THEN <<x>>
  ELSE LET k == CHOOSE i \in K : \A j \in K : i <= j
       IN <<SubSeq(x, 1, k)>> \o Split(SubSeq(x, k + 1, Len(x)), {j - k : j \in K \ {k}})

\* tokens: plain, with a space, with a percent sign, with the text of an escape, empty
TokenPool ==
  {<<"1">>, <<"a", Sp, "b">>, <<"5", "0", "%">>, <<"a", "%", "2", "0", "b">>, <<>>}

\* payloads: none at all, no byte, a byte, the text of a command, no UTF-8
Payloads ==
  {NoCache, Cached(<<>>), Cached(<<"h">>), Cached(<<"O", "U", "T", Cr, Lf>>), Cached(<<NonUtf8>>)}

\* the frames that a front-end writes: a verb, tokens, and a payload with the verbs
\* of the payload set
Written ==
  {[m |-> <<v>> \o t, data |-> d] :
     v \in {<<"O", "U", "T">>, <<"M", "S", "G">>}, t \in UpTo(TokenPool, MaxArgs), d \in Payloads}

InitWire ==
  /\ now = 0
  /\ tokens = [t \in TokenIds |-> FreeToken]
  /\ roster = <<>>
  /\ sessions = <<>>
  /\ ctl = [c \in Ctrls |-> NewCtrl]
  /\ FrontsIdle
  /\ \/ \E x \in StreamsOf(WellFormed \cup IllFormed) : \E K \in Cuts(x) :
          last = [op |-> "stream", c |-> [stream |-> x, cuts |-> K], ret |-> <<>>]
     \/ \E f \in Written :
          /\ f.data.some <=> f.m[1] \in PAYLOAD_COMMANDS
          /\ last = [op |-> "frame", c |-> f, ret |-> <<>>]

\* the transport delivers the stream in chunks to a fresh reader
Deliver ==
  /\ last.op = "stream"
  /\ Pure("delivered", last.c, deliver(<<>>, Split(last.c.stream, last.c.cuts), <<>>))

\* MSNPWriter.write and flush
Write ==
  /\ last.op = "frame"
  /\ Pure("written", last.c, write(last.c.m, last.c.data))

\* the peer's reader is given what was written
Read ==
  /\ last.op = "written"
  /\ Pure("read", last.c, drain(last.ret, <<>>))

NextWire ==
  \/ Deliver
  \/ Write
  \/ Read

SpecWire == InitWire /\ [][NextWire]_vars

\* ------------------------------------------------------------- the reader specification
\* a line of one character
OneChar == <<"a", Cr, Lf>>

\* the frames on which the reader stops: an empty line, a payload command whose
\* length is no number, a line of one character
Wedges == IllFormed \cup {OneChar}

\* a client writes a stream of whole frames, which the transport cuts into chunks
Send(q, K) ==
  /\ reader = NewReader
  /\ reader' = [reader EXCEPT !.inflight = Split(Flat(q), K),
                              !.made = deliver(<<>>, Split(Flat(q), K), <<>>),
                              !.wedge = \E k \in DOMAIN q : q[k] \in Wedges,
                              !.sent = 1]
  /\ UNCHANGED <<switchboard, last, oims, irc, bot>>

\* MSNPReader.data_received of the next chunk: the buffer grows and the loop runs.
\* The reader is deterministic, so what the loop yields was worked out (deliver)
\* when the chunk was sent.
Arrive ==
  /\ reader.inflight # <<>>
  /\ reader' = [reader EXCEPT !.data = Head(reader.made).data,
                              !.inflight = Tail(@),
                              !.made = Tail(@),
                              !.out = @ \o Head(reader.made).out,
                              !.raised = Head(reader.made).raised]
  /\ UNCHANGED <<switchboard, last, oims, irc, bot>>

\* the client sends one more well-formed frame
Again(f) ==
  /\ reader.inflight = <<>>
  /\ reader.sent \in 1..MaxResends
  /\ reader' = [reader EXCEPT !.inflight = <<f>>,
                              !.made = deliver(reader.data, <<f>>, <<>>),
                              !.sent = @ + 1]
  /\ UNCHANGED <<switchboard, last, oims, irc, bot>>

NextReader ==
  \/ \E q \in UpTo(WellFormed \cup Wedges, MaxFrames) \ {<<>>} : \E K \in Cuts(Flat(q)) : Send(q, K)
  \/ Arrive
  \/ \E f \in {<<"O", "U", "T", Cr, Lf>>} : Again(f)

SpecReader == Init /\ [][NextReader]_vars

\* the transport hands over every chunk that has arrived
LiveReader == SpecReader /\ WF_vars(Arrive)

\* ------------------------------------------------------------- the bot specification
\* the room hands the bot's handler a message
BotMessage(message) ==
  /\ bot.seen < MaxInbox
  /\ \E B \in {bot_on_message(bot, message)} :
       bot' = [B EXCEPT !.seen = @ + 1,
                        !.step = [op |-> "message", ret |-> IF B = bot THEN "ignored" ELSE "accepted",
                                  message |-> message, tasks |-> bot.tasks, out |-> bot.out,
                                  sending |-> bot.sending]]
  /\ UNCHANGED <<switchboard, last, oims, irc, reader>>

\* the sleep of a task is over and the event loop resumes it
BotWake ==
  /\ bot.tasks # <<>>
  /\ bot' = [bot_send_delayed(bot) EXCEPT
               !.step = [op |-> "wake", ret |-> "sent", message |-> NoMessage, tasks |-> bot.tasks,
                         out |-> bot.out, sending |-> bot.sending]]
  /\ UNCHANGED <<switchboard, last, oims, irc, reader>>

NextBot ==
  \/ \E message \in BotInbox : BotMessage(message)
  \/ BotWake

SpecBot == Init /\ [][NextBot]_vars

\* the event loop resumes every task whose sleep is over
LiveBot == SpecBot /\ WF_vars(BotWake)

\* ------------------------------------------------------------- the store specification
\* a step of the store: operation op on recipient r and message uuid
Stored(op, r, uuid, R) ==
  /\ oims' = R.store
  /\ last' = [op |-> op, c |-> [r |-> r, uuid |-> uuid, before |-> oims], ret |-> R.ret]
  /\ UNCHANGED <<switchboard, irc, bot, reader>>

Save(r, uuid, text) == Stored("save", r, uuid, save_oim(oims, r, uuid, text))

GetSingle(r, uuid, mark_read) == Stored("single", r, uuid, get_oim_single(oims, r, uuid, mark_read))

GetBatch(r) == Stored("batch", r, "", [store |-> oims, ret |-> get_oim_batch(oims, r)])

Delete(r, uuid) == Stored("delete", r, uuid, delete_oim(oims, r, uuid))

NextOim ==
  \/ \E r \in Recipients, uuid \in OimIds, text \in OimTexts : Save(r, uuid, text)
  \/ \E r \in Recipients, uuid \in OimIds, mark_read \in BOOLEAN : GetSingle(r, uuid, mark_read)
  \/ \E r \in Recipients : GetBatch(r)
  \/ \E r \in Recipients, uuid \in OimIds : Delete(r, uuid)

SpecOim == Init /\ [][NextOim]_vars

\* ------------------------------------------------------------- the IRC specification
\* a step of the IRC front-end on connection c about channel
IrcStep(op, c, channel, I) ==
  /\ irc' = [chats |-> I.chats, roster |-> I.roster, sessions |-> I.sessions,
             chat_sessions |-> I.chat_sessions]
  /\ last' = [op |-> op, c |-> [c |-> c, channel |-> channel, before |-> irc],
              ret |-> [exit |-> I.ret, wire |-> I.wire]]
  /\ UNCHANGED <<switchboard, oims, bot, reader>>

IrcJoin(c, channel, refuse) ==
  /\ Len(irc.sessions) < MaxMemberships
  /\ IrcStep("JOIN", c, channel, irc_m_join(IrcSt(irc), c, channel, refuse))

IrcPart(c, channel) == IrcStep("PART", c, channel, irc_m_part(IrcSt(irc), c, channel))

\* the backend closes an idle chat session
IrcEvict(i) ==
  /\ i \in DOMAIN irc.sessions
  /\ i \in Range(irc.roster[irc.sessions[i].chat])
  /\ IrcStep("evict", irc.sessions[i].ctrl, irc.sessions[i].chat,
             Ret(irc_ChatSession_close(IrcSt(irc), i, TRUE), "evicted"))

NextIrc ==
  \/ \E c \in IrcCtrls, channel \in Channels, refuse \in BOOLEAN : IrcJoin(c, channel, refuse)
  \/ \E c \in IrcCtrls, channel \in Channels : IrcPart(c, channel)
  \/ \E i \in 1..MaxMemberships : IrcEvict(i)

SpecIrc == Init /\ [][NextIrc]_vars

\* ------------------------------------------------------------- claims
\* The well-formed frames a client can send, and what the handler makes of each
\* in the current state.
UsrFrames == [trid : TrIds, arg : Args \ {NoArg}, token : TokenIds, refuse : BOOLEAN]

AnsFrames == [trid : TrIds, arg : Args \ {NoArg}, token : TokenIds, sessid : TokenIds,
              refuse : BOOLEAN]

Usr(c, f) == m_usr(St, c, f.trid, f.arg, f.token, FALSE, f.refuse)

Ans(c, f) == m_ans(St, c, f.trid, f.arg, f.token, f.sessid, FALSE, f.refuse)

Open == {c \in Ctrls : Receiving(c)}

\* What the handler sends c in answer to the frame. A BYE is not an answer: it is the
\* departure notice a room delivers to a session that c bound earlier and left behind.
ToCtrl(R, c) == SelectSeq(R.wire, LAMBDA m : m.to = c /\ m.verb # "BYE")

Verbs(q) == {q[i].verb : i \in DOMAIN q}

\* c is sent the auth-failure reply with the request's transaction id, and nothing else
AuthFailOnly(R, c, trid) ==
  LET q == ToCtrl(R, c)
  IN Len(q) = 1 /\ q[1].verb = "ERR" /\ q[1].trid = trid /\ q[1].args[1] = "AuthFail"

HardClosed(R, c) == R.ctl[c].closed /\ "OUT" \notin Verbs(R.wire)

\* the frame put a session into a roster
Joined(R) == Len(R.sessions) > Len(sessions)

\* the request's device id, braces removed, is the session's up to case
Matches(b, pop) ==
  pop.some /\ BsPopId(b).some /\ lower(strip_braces(pop.v)) = lower(BsPopId(b).v)

IdentityOk(data, arg) ==
  /\ UserEmail(BsUser(data.bs)) = arg.email
  /\ data.dialect >= 16 /\ arg.pop.some => Matches(data.bs, arg.pop)

Denied(R, c, trid) ==
  /\ AuthFailOnly(R, c, trid)
  /\ HardClosed(R, c)
  /\ Len(R.roster) = Len(roster)
  /\ ~Joined(R)
  /\ R.ctl[c].bs = ctl[c].bs
  /\ R.ctl[c].cs = ctl[c].cs

\* C1: a handoff token admits at most one handoff. A USR or ANS frame puts a session
\* into a room only if its token was still unconsumed, and consumes it; a consumed token
\* stays consumed; and whoever presents a consumed token is sent the auth-failure reply
\* and hard-closed, without joining.
C1_OneHandoffPerToken ==
  \A c \in Open :
    /\ \A f \in UsrFrames :
         LET R == Usr(c, f)
         IN /\ Joined(R) => /\ tokens[f.token].state = "live"
                            /\ tokens[f.token].ns = "sb/xfr"
                            /\ R.tokens[f.token].state = "used"
            /\ tokens[f.token].state = "used" => Denied(R, c, f.trid)
            /\ \A u \in TokenIds : tokens[u].state = "used" => R.tokens[u].state = "used"
    /\ \A f \in AnsFrames :
         LET R == Ans(c, f)
         IN /\ Joined(R) => /\ tokens[f.token].state = "live"
                            /\ tokens[f.token].ns = "sb/cal"
                            /\ R.tokens[f.token].state = "used"
            /\ tokens[f.token].state = "used" => Denied(R, c, f.trid)
            /\ \A u \in TokenIds : tokens[u].state = "used" => R.tokens[u].state = "used"

\* after a handoff that succeeded, a connection presented a consumed token and was refused
C1_Witness ==
  /\ last.op \in {"USR", "ANS"}
  /\ last.ret = "token"
  /\ now = 0
  /\ \A t \in TokenIds : tokens[t].state = "used"
  /\ ctl[last.c].closed
  /\ \E o \in Ctrls \ {last.c} : ctl[o].cs # 0 /\ ~ctl[o].closed

\* C2 as stated: an invalid token, or an email that is not the token's session's, gets
\* exactly the auth-failure reply and a hard close on both paths; nothing is created or
\* joined and bs/cs are as before.
C2_Original ==
  \A c \in Open :
    /\ \A f \in UsrFrames :
         LET data == get_token(St, "sb/xfr", f.token)
         IN data.state # "live" \/ UserEmail(BsUser(data.bs)) # f.arg.email
              => Denied(Usr(c, f), c, f.trid)
    /\ \A f \in AnsFrames :
         LET data == get_token(St, "sb/cal", f.token)
         IN data.state # "live" \/ UserEmail(BsUser(data.bs)) # f.arg.email
              => Denied(Ans(c, f), c, f.trid)

\* C2 amended: the same, except for a call-in token that is stale: there the staleness
\* check comes first and the email is never looked at.
C2_AuthFailure ==
  \A c \in Open :
    /\ \A f \in UsrFrames :
         LET data == get_token(St, "sb/xfr", f.token)
         IN data.state # "live" \/ UserEmail(BsUser(data.bs)) # f.arg.email
              => Denied(Usr(c, f), c, f.trid)
    /\ \A f \in AnsFrames :
         LET data == get_token(St, "sb/cal", f.token)
         IN (\/ data.state # "live"
             \/ UserEmail(BsUser(data.bs)) # f.arg.email /\ round(now - data.expiry) < StaleSecs)
              => Denied(Ans(c, f), c, f.trid)

\* a frame with a live token and another user's email was refused
C2_Witness ==
  /\ last.op \in {"USR", "ANS"}
  /\ last.ret = "identity"
  /\ ctl[last.c].closed
  /\ ctl[last.c].bs = NoBs
  /\ ctl[last.c].cs = 0

\* C3 as stated: with a dialect >= 16 token a handoff succeeds only with a matching
\* device id, and every request without one is refused with auth-failure and hard close.
C3_Original ==
  \A c \in Open :
    /\ \A f \in UsrFrames :
         LET data == get_token(St, "sb/xfr", f.token)
             R == Usr(c, f)
         IN data.state = "live" /\ data.dialect >= 16
              => /\ Joined(R) => Matches(data.bs, f.arg.pop)
                 /\ ~Matches(data.bs, f.arg.pop) => AuthFailOnly(R, c, f.trid) /\ HardClosed(R, c)
    /\ \A f \in AnsFrames :
         LET data == get_token(St, "sb/cal", f.token)
             R == Ans(c, f)
         IN data.state = "live" /\ data.dialect >= 16
              => /\ Joined(R) => Matches(data.bs, f.arg.pop)
                 /\ ~Matches(data.bs, f.arg.pop) => AuthFailOnly(R, c, f.trid) /\ HardClosed(R, c)

\* C3 amended: a request that carries a device id succeeds only if the id matches, and
\* one that carries another id never joins and is hard-closed, with the auth-failure
\* reply unless its call-in token is stale (then with no reply at all). A request that
\* carries no device id is not held against the session's device id.
C3_DeviceId ==
  \A c \in Open :
    /\ \A f \in UsrFrames :
         LET data == get_token(St, "sb/xfr", f.token)
             R == Usr(c, f)
         IN data.state = "live" /\ data.dialect >= 16 /\ f.arg.pop.some
              => /\ Joined(R) => Matches(data.bs, f.arg.pop)
                 /\ ~Matches(data.bs, f.arg.pop)
                      => ~Joined(R) /\ HardClosed(R, c) /\ AuthFailOnly(R, c, f.trid)
    /\ \A f \in AnsFrames :
         LET data == get_token(St, "sb/cal", f.token)
             R == Ans(c, f)
         IN data.state = "live" /\ data.dialect >= 16 /\ f.arg.pop.some
              => /\ Joined(R) => Matches(data.bs, f.arg.pop)
                 /\ ~Matches(data.bs, f.arg.pop)
                      => /\ ~Joined(R)
                         /\ HardClosed(R, c)
                         /\ IF round(now - data.expiry) >= StaleSecs THEN ToCtrl(R, c) = <<>>
                            ELSE AuthFailOnly(R, c, f.trid)

\* a device joined under an id written in another case than the registered one
C3_Witness ==
  \E i \in DOMAIN sessions :
    /\ BsDialect(sessions[i].bs) >= 16
    /\ sessions[i].pop_id.some
    /\ BsPopId(sessions[i].bs).some
    /\ sessions[i].pop_id.v # BsPopId(sessions[i].bs).v
    /\ lower(sessions[i].pop_id.v) = lower(BsPopId(sessions[i].bs).v)

\* C4: a USR with a valid token and the matching identity, whose join goes through,
\* makes a new room holding the new session alone, binds bs, cs and dialect, and sends
\* the caller exactly "USR trid OK <arg as sent> <name, or the email if the name is empty>".
C4_Transfer ==
  \A c \in Open : \A f \in UsrFrames :
    LET data == get_token(St, "sb/xfr", f.token)
        R == Usr(c, f)
        ch == Len(roster) + 1
        cs == Len(sessions) + 1
        u == BsUser(data.bs)
        q == ToCtrl(R, c)
    IN data.state = "live" /\ IdentityOk(data, f.arg) /\ ~f.refuse
         => /\ Len(R.roster) = ch
            /\ Len(R.sessions) = cs
            /\ R.roster[ch] = <<cs>>
            /\ \A k \in 1..Len(roster) : R.roster[k] = roster[k]
            /\ R.sessions[cs].bs = data.bs
            /\ R.sessions[cs].chat = ch
            /\ R.sessions[cs].ctrl = c
            /\ R.ctl[c].bs = data.bs
            /\ R.ctl[c].cs = cs
            /\ R.ctl[c].dialect = data.dialect
            /\ Len(R.wire) = 1
            /\ Len(q) = 1
            /\ q[1].verb = "USR"
            /\ q[1].trid = f.trid
            /\ q[1].args = <<"OK", f.arg, IF UserName(u) = "" THEN UserEmail(u) ELSE UserName(u)>>

\* a transfer went through for a user whose display name is empty
C4_Witness ==
  /\ last.op = "USR"
  /\ last.ret = "joined"
  /\ UserName(BsUser(ctl[last.c].bs)) = ""
  /\ roster[sessions[ctl[last.c].cs].chat] = <<ctl[last.c].cs>>

\* the age of a call-in token in whole seconds, as the staleness window counts it
Stale(data) == round(now - data.expiry) >= StaleSecs

\* C5: an ANS whose token exists but is 60 s or more past its baseline is hard-closed
\* with no reply frame and joins nothing, whatever its identity and session id.
C5_StaleCallIn ==
  \A c \in Open : \A f \in AnsFrames :
    LET data == get_token(St, "sb/cal", f.token)
        R == Ans(c, f)
    IN data.state = "live" /\ Stale(data)
         => /\ HardClosed(R, c)
            /\ ToCtrl(R, c) = <<>>
            /\ "JOI" \notin Verbs(R.wire)
            /\ ~Joined(R)
            /\ \A k \in DOMAIN roster : Range(R.roster[k]) \subseteq Range(roster[k])
            /\ R.ctl[c].cs = ctl[c].cs

\* a call-in was turned away as stale half a second before its token's life ran out
C5_Witness ==
  /\ last.op = "ANS"
  /\ last.ret = "stale"
  /\ now < TokenLife
  /\ ctl[last.c].closed
  /\ ctl[last.c].cs = 0

\* C6 as stated: a call-in token turned away by the staleness check has not been
\* consumed by that ANS.
C6_Original ==
  \A c \in Open : \A f \in AnsFrames :
    LET data == get_token(St, "sb/cal", f.token)
    IN data.state = "live" /\ Stale(data) => Ans(c, f).tokens[f.token].state = "live"

\* C6 amended: the token is first inspected without consuming it (an ANS whose token
\* is not a valid call-in token leaves the store as it was), a valid one is then
\* consumed, and only then is the staleness check applied: a call-in token turned away
\* by the staleness check has been consumed by that ANS.
C6_ConsumedBeforeStaleness ==
  \A c \in Open : \A f \in AnsFrames :
    LET data == get_token(St, "sb/cal", f.token)
        R == Ans(c, f)
    IN /\ data.state # "live" => R.tokens = tokens
       /\ data.state = "live" => R.tokens[f.token].state = "used"
       /\ data.state = "live" /\ Stale(data)
            => R.tokens[f.token].state = "used" /\ R.ctl[c].closed /\ ~Joined(R)

\* the only token issued went to a call-in that was turned away as stale, and is spent
C6_Witness ==
  /\ last.op = "ANS"
  /\ last.ret = "stale"
  /\ sessions = <<>>
  /\ \E t \in TokenIds : tokens[t].state = "used" /\ tokens[t].ns = "sb/cal"
  /\ \A t \in TokenIds : tokens[t].state # "live"

\* C7: a call-in whose session id is not the room's main id, or whose token names no
\* room, never joins: the connection is hard-closed, nobody is told of a participant,
\* and the caller gets no IRO row and no ANS reply.
C7_WrongRoom ==
  \A c \in Open : \A f \in AnsFrames :
    LET data == get_token(St, "sb/cal", f.token)
        R == Ans(c, f)
    IN data.state = "live" /\ (data.chat = 0 \/ f.sessid # MainId(data.chat))
         => /\ HardClosed(R, c)
            /\ ~Joined(R)
            /\ \A k \in DOMAIN roster : Range(R.roster[k]) \subseteq Range(roster[k])
            /\ Verbs(R.wire) \cap {"JOI", "IRO", "ANS"} = {}

\* a call-in with a good token and the right identity named the wrong session id
C7_Witness ==
  /\ last.op = "ANS"
  /\ last.ret = "room"
  /\ ctl[last.c].closed
  /\ ctl[last.c].cs = 0
  /\ roster # <<>>

\* C8: a call-in that goes through puts the session at the end of the room's roster;
\* its frames are, in this order, the JOI notices to the rest of the roster, the IRO
\* rows to the caller, and one "ANS trid OK" to the caller, which is the last frame.
\* A dialect >= 16 caller finds itself among the rows: it was in the roster before
\* the rows were computed.
C8_CallInOrder ==
  \A c \in Open : \A f \in AnsFrames :
    LET data == get_token(St, "sb/cal", f.token)
        R == Ans(c, f)
        w == R.wire
        n == Len(w)
        cs == Len(sessions) + 1
    IN (/\ data.state = "live"
        /\ ~Stale(data)
        /\ IdentityOk(data, f.arg)
        /\ data.chat # 0
        /\ f.sessid = MainId(data.chat)
        /\ ~f.refuse)
         => /\ R.roster[data.chat] = Append(roster[data.chat], cs)
            /\ R.sessions[cs].bs = data.bs
            /\ R.ctl[c].cs = cs
            /\ n >= 1
            /\ w[n].verb = "ANS" /\ w[n].to = c /\ w[n].trid = f.trid /\ w[n].args = <<"OK">>
            /\ \E j \in 0..(n - 1) :
                 /\ \A k \in 1..j :
                      /\ w[k].verb = "JOI"
                      /\ \E i \in Range(roster[data.chat]) : sessions[i].ctrl = w[k].to
                 /\ \A k \in (j + 1)..(n - 1) :
                      w[k].verb = "IRO" /\ w[k].to = c /\ w[k].trid = f.trid
                 /\ \A i \in Range(roster[data.chat]) :
                      (\/ R.ctl[sessions[i].ctrl].dialect >= 16
                       \/ \A m \in Range(roster[data.chat]) : BsUser(sessions[m].bs) # BsUser(data.bs))
                        => \E k \in 1..j : w[k].to = sessions[i].ctrl
                 /\ data.dialect >= 16 => j + 1 <= n - 1

\* a call-in went through into a room where another connection's session was waiting
C8_Witness ==
  /\ last.op = "ANS"
  /\ last.ret = "joined"
  /\ ctl[last.c].cs # 0
  /\ \E i \in Range(roster[sessions[ctl[last.c].cs].chat]) :
       sessions[i].ctrl # last.c /\ ~ctl[sessions[i].ctrl].closed

\* C9 as stated: when its timer fires, every connection on which no handoff has gone
\* through is force-closed, also one whose attempt failed without closing it.
C9_Original ==
  \A c \in Ctrls :
    ctl[c].counter_task = "pending" /\ ctl[c].cs = 0
      => conn_auth_limit_counter(St, c).ctl[c].closed

\* C10: where cs is set the timer task is gone, and a connection that has joined is
\* never closed by the timer: its task cannot fire, and would spare it if it did.
C10_TimerCancelled ==
  /\ \A c \in Ctrls :
       ctl[c].cs # 0 => /\ ctl[c].counter_task = "none"
                        /\ ~ctl[c].closed => ~conn_auth_limit_counter(St, c).ctl[c].closed
  /\ last.op = "timer" /\ last.ret = "closed" => ctl[last.c].cs = 0 /\ ~ctl[last.c].auth_sent

\* the timer closed a silent connection while a joined one stayed open
C10_Witness ==
  /\ last.op = "timer"
  /\ last.ret = "closed"
  /\ \E c \in Ctrls \ {last.c} : ctl[c].cs # 0 /\ ~ctl[c].closed /\ ctl[c].counter_task = "none"

\* ------------------------------------------------------------- claims on messages
MsgFrames == [trid : TrIds, ack : AckModes, size : Sizes, kind : Kinds, delivered : BOOLEAN]

Msg(c, f) == m_msg(St, c, f.trid, f.ack, f.size, f.kind, f.delivered)

\* the connections that are in a room
Live == {c \in Open : ctl[c].bs # NoBs /\ ctl[c].cs # 0}

\* the sessions that share a room with session i
Others(i) == {j \in Range(roster[sessions[i].chat]) : j # i}

C12_Original ==
  \A c \in Live : \A f \in MsgFrames :
    LET q == SelectSeq(Msg(c, f).wire, LAMBDA m : m.to = c)
        One(verb) == Len(q) = 1 /\ q[1].verb = verb /\ q[1].trid = f.trid
    IN f.size <= 1664
         => /\ f.ack = "U" => q = <<>>
            /\ f.ack \in {"A", "D"} /\ f.delivered => One("ACK")
            /\ f.ack \in {"D", "N"} /\ ~f.delivered => One("NAK")
            /\ f.ack = "N" /\ f.delivered => q = <<>>

\* ------------------------------------------------------------- claims on invites
CalFrames == [trid : TrIds, target : Targets, detail : BOOLEAN, loaded : BOOLEAN,
              offlineish : BOOLEAN, outcome : InviteOutcomes]

Cal(c, f) == m_cal(St, c, f.trid, f.target, f.detail, f.loaded, f.offlineish, f.outcome)

OwnEmail(c) == UserEmail(BsUser(ctl[c].bs))

\* c is sent one numeric error reply with the request's transaction id, and nothing else
ErrorOnly(R, c, trid) ==
  LET q == SelectSeq(R.wire, LAMBDA m : m.to = c)
  IN Len(q) = 1 /\ q[1].verb = "ERR" /\ q[1].trid = trid

\* C13: a CAL that is denied, because its address is malformed or unknown or names
\* somebody other than the caller who is offline-ish, is answered with one numeric
\* error reply carrying the transaction id; nobody is invited or told anything else,
\* sessions and rosters are as before, and the connection stays open.
C13_InviteDenied ==
  \A c \in Live : \A f \in CalFrames :
    LET R == Cal(c, f)
    IN (\/ f.target = "bad"
        \/ f.target \notin Accounts
        \/ f.target # OwnEmail(c) /\ f.offlineish /\ f.detail /\ f.loaded)
         => /\ ErrorOnly(R, c, f.trid)
            /\ Len(R.wire) = 1
            /\ R.ctl = ctl
            /\ R.roster = roster
            /\ R.sessions = sessions
            /\ R.tokens = tokens

\* an invite of an offline-ish contact was denied and the caller is still in its room
C13_Witness ==
  /\ last.op = "CAL"
  /\ last.ret = "offline"
  /\ ~ctl[last.c].closed
  /\ ctl[last.c].cs # 0
  /\ ctl[last.c].cs \in Range(roster[sessions[ctl[last.c].cs].chat])

\* how the invite of frame f ends on connection c: "ok", "return" or the failure
CalEnds(c, f) ==
  IF f.target = "bad" THEN "InvalidUser2"
  ELSE IF f.target \notin Accounts THEN "PrincipalNotOnline"
  ELSE cal_try(St, c, f.target, f.detail, f.loaded, f.offlineish, f.outcome)

Failing(c, f) == CalEnds(c, f) \notin {"ok", "return"}

\* the room's one-per-user roster is exactly the caller's own session
AloneInRoom(c) == get_roster_single(St, sessions[ctl[c].cs].chat) = <<ctl[c].cs>>

\* c is sent 'CAL trid RINGING room' and then joins of itself only, and no error
RingingThenJoined(R, c, trid) ==
  LET q == SelectSeq(R.wire, LAMBDA m : m.to = c)
  IN /\ Len(q) >= 2
     /\ q[1].verb = "CAL" /\ q[1].trid = trid
     /\ q[1].args = <<"RINGING", MainId(sessions[ctl[c].cs].chat)>>
     /\ \A k \in 2..Len(q) :
          /\ q[k].verb = "JOI"
          /\ decode_email_pop(q[k].args[1])[1] = OwnEmail(c)
     /\ \A k \in 1..Len(R.wire) : R.wire[k].verb # "INVITE"

ErrorNoJoin(R, c, trid) ==
  /\ ErrorOnly(R, c, trid)
  /\ \A k \in 1..Len(R.wire) : R.wire[k].verb # "JOI"

\* C14 as stated: inviting one's own address into a room holding only the caller,
\* with "already on the list" as the only failure, is answered with RINGING and a
\* synthesized join and no error; any other failing invite is answered with the
\* error reply and no synthesized join.
C14_Original ==
  \A c \in Live : \A f \in CalFrames :
    LET R == Cal(c, f)
        shim == /\ f.target = OwnEmail(c)
                /\ AloneInRoom(c)
                /\ CalEnds(c, f) = "ContactAlreadyOnList"
    IN Failing(c, f) =>
         IF shim THEN RingingThenJoined(R, c, f.trid) ELSE ErrorNoJoin(R, c, f.trid)

\* C14: the same, where the shim also requires the caller's dialect to be at least 16:
\* a caller of a lower dialect gets the error reply like any other failing invite.
C14_InviteSelfShim ==
  \A c \in Live : \A f \in CalFrames :
    LET R == Cal(c, f)
        shim == /\ f.target = OwnEmail(c)
                /\ AloneInRoom(c)
                /\ CalEnds(c, f) = "ContactAlreadyOnList"
                /\ ctl[c].dialect >= 16
    IN Failing(c, f) =>
         /\ IF shim THEN RingingThenJoined(R, c, f.trid) ELSE ErrorNoJoin(R, c, f.trid)
         /\ R.ctl = ctl /\ R.roster = roster /\ R.sessions = sessions

\* the shim fired for a caller alone in its room
C14_Witness ==
  /\ last.op = "CAL"
  /\ last.ret = "shim"
  /\ ctl[last.c].cs # 0
  /\ roster[sessions[ctl[last.c].cs].chat] = <<ctl[last.c].cs>>

\* a caller of dialect below 16, alone in its room, was refused its own address
C14_WitnessLowDialect ==
  /\ last.op = "CAL"
  /\ last.ret = "error"
  /\ ctl[last.c].cs # 0
  /\ ctl[last.c].dialect < 16
  /\ roster[sessions[ctl[last.c].cs].chat] = <<ctl[last.c].cs>>

\* ------------------------------------------------------------- claims on roster rows
\* the call-in that connection c would make with the token on offer
RoomAns(c) == m_ans(St, c, 1, RoomArg(tokens[1].bs), 1, tokens[1].chat, FALSE, FALSE)

\* c is about to call in and be given the roster
Enumerating(c) ==
  /\ c \in Open
  /\ ctl[c].cs = 0
  /\ tokens[1].state = "live"
  /\ tokens[1].ns = "sb/cal"
  /\ RoomAns(c).ret = "joined"

\* the IRO rows sent to c
Rows(R, c) == SelectSeq(R.wire, LAMBDA m : m.to = c /\ m.verb = "IRO")

RowAddress(R, i) ==
  encode_email_pop(UserEmail(CsUser(R, i)), BsPopId(R.sessions[i].bs))

PlainAddress(R, i) == encode_email_pop(UserEmail(CsUser(R, i)), NoPop)

\* where in q the rows with address a are
At(q, a) == {k \in 1..Len(q) : q[k].args[3] = a}

PrimariesPresent(c) ==
  LET R == RoomAns(c)
      members == Range(R.roster[tokens[1].chat])
  IN \A i \in members : \E p \in members : CsUser(R, p) = CsUser(R, i) /\ R.sessions[p].primary_pop

\* ------------------------------------------------------------- claims on capabilities
\* frames that name a participant: roster rows and join notices
Naming(R) == SelectSeq(R.wire, LAMBDA m : m.verb \in {"IRO", "JOI"} /\ R.ctl[m.to].dialect >= 12)

Address(m) == IF m.verb = "JOI" THEN m.args[1] ELSE m.args[3]

\* the basic capabilities in the last field of the frame
Basic(R, m) ==
  LET f == m.args[Len(m.args)]
  IN IF R.ctl[m.to].dialect >= 16 THEN f[1] ELSE f

\* the sessions in the room whose user the frame names
Named(R, m) ==
  {i \in Range(R.roster[tokens[1].chat]) : UserEmail(CsUser(R, i)) = decode_email_pop(Address(m))[1]}

\* C17 as stated: a row or join notice for a device with no capabilities recorded
\* carries the sentinel, never zero.
C17_Original ==
  \A c \in Ctrls :
    Enumerating(c) =>
      LET R == RoomAns(c)
          q == Naming(R)
      IN \A k \in 1..Len(q) :
           (\A i \in Named(R, q[k]) : ~BsCapsRecorded(R.sessions[i].bs))
             => Basic(R, q[k]) = MAX_CAPABILITIES_BASIC

\* what the field holds for backend session b
Expected(b) ==
  IF ~BsMsn(b) THEN MAX_CAPABILITIES_BASIC
  ELSE IF BsCapsRecorded(b) THEN BsCapabilities(b) ELSE 0

\* C17: the sentinel stands for a session that is not of the MSN front-end; a row or
\* join notice for an MSN session carries what the session recorded, and zero when it
\* recorded nothing.
C17_Capabilities ==
  \A c \in Ctrls :
    Enumerating(c) =>
      LET R == RoomAns(c)
          q == Naming(R)
          joiner == Len(R.sessions)
      IN \A k \in 1..Len(q) :
           /\ \E i \in Named(R, q[k]) : Basic(R, q[k]) = Expected(R.sessions[i].bs)
           /\ q[k].verb = "JOI" => Basic(R, q[k]) = Expected(R.sessions[joiner].bs)
           /\ (\A i \in Named(R, q[k]) : ~BsMsn(R.sessions[i].bs))
                => Basic(R, q[k]) = MAX_CAPABILITIES_BASIC
           /\ (\A i \in Named(R, q[k]) :
                 BsMsn(R.sessions[i].bs) /\ ~BsCapsRecorded(R.sessions[i].bs))
                => Basic(R, q[k]) = 0

\* an MSN session that recorded no capabilities has called in to a room where a
\* member of dialect 12 or more was told of it
C17_Witness ==
  /\ last.op = "ANS"
  /\ last.ret = "joined"
  /\ ctl[last.c].cs # 0
  /\ BsMsn(ctl[last.c].bs)
  /\ ~BsCapsRecorded(ctl[last.c].bs)
  /\ \E i \in Range(roster[sessions[ctl[last.c].cs].chat]) :
       /\ i # ctl[last.c].cs
       /\ ctl[sessions[i].ctrl].dialect >= 12

\* ------------------------------------------------------------- claims on the short roster
\* the users in the room other than the caller's, at the time of the enumeration
OtherUsers(R, c) ==
  {CsUser(R, i) : i \in {j \in Range(R.roster[tokens[1].chat]) : CsUser(R, j) # BsUser(tokens[1].bs)}}

\* C18: a caller of dialect below 16 is sent one row per user in the room other than
\* its own, whatever the number of their devices, numbered 1..N with N as total and
\* a device-id-free address; a row has one capability field after the name if the
\* dialect is 12 to 15 and none if it is below 12.
C18_ShortRoster ==
  \A c \in Ctrls :
    Enumerating(c) /\ tokens[1].dialect < 16 =>
      LET R == RoomAns(c)
          q == Rows(R, c)
          d == tokens[1].dialect
      IN /\ Len(q) = Cardinality(OtherUsers(R, c))
         /\ \A u \in OtherUsers(R, c) :
              Cardinality({k \in 1..Len(q) : q[k].args[3] = encode_email_pop(UserEmail(u), NoPop)}) = 1
         /\ \A k \in 1..Len(q) :
              /\ q[k].trid = 1
              /\ q[k].args[1] = k
              /\ q[k].args[2] = Len(q)
              /\ Len(q[k].args) = IF d >= 12 THEN 5 ELSE 4
              /\ d >= 12 => q[k].args[5] \in Nat

\* a caller of dialect below 16 has called in to a room that holds two devices of
\* another user
C18_Witness ==
  /\ last.op = "ANS"
  /\ last.ret = "joined"
  /\ ctl[last.c].cs # 0
  /\ ctl[last.c].dialect < 16
  /\ \E i, j \in Range(roster[sessions[ctl[last.c].cs].chat]) :
       /\ i # j
       /\ i # ctl[last.c].cs /\ j # ctl[last.c].cs
       /\ sessions[i].bs # sessions[j].bs
       /\ BsUser(sessions[i].bs) = BsUser(sessions[j].bs)

\* ------------------------------------------------------------- claims on join and leave notices
\* the frames with verb v that R writes to connection c about the user with address mail
About(R, c, v, mail) ==
  SelectSeq(R.wire, LAMBDA m : m.to = c /\ m.verb = v /\ decode_email_pop(m.args[1])[1] = mail)

\* the sessions of user u in room ch
OfUser(u, ch) == {i \in Range(roster[ch]) : BsUser(sessions[i].bs) = u}

\* an IRC connection, which is no switchboard connection
IrcCtrl == "irc"

\* C19: when a device joins, a member of dialect below 16 is sent one JOI for the
\* device's user if the user had no device in the room and none otherwise, and an
\* IRC member one JOIN or none likewise; when a device leaves, such a member is sent
\* one BYE (PART) if no device of the user stays and none otherwise. Joins that
\* are told are thus the user's first, leaves that are told the user's last, and
\* the two alternate. A member of dialect 16 or more is sent a JOI naming the device
\* on every join and a BYE naming the device on every leave.
C19_DeviceUnaware ==
  /\ \A c \in Ctrls :
       Enumerating(c) =>
         LET R == RoomAns(c)
             ch == tokens[1].chat
             u == BsUser(tokens[1].bs)
             first == OfUser(u, ch) = {}
             joiner == Len(R.sessions)
         IN \A o \in Range(roster[ch]) :
              LET oc == sessions[o].ctrl
                  J == About(R, oc, "JOI", UserEmail(u))
              IN /\ ctl[oc].dialect < 16 => Len(J) = IF first THEN 1 ELSE 0
                 /\ ctl[oc].dialect >= 16 => Len(J) >= 1 /\ J[1].args[1] = RowAddress(R, joiner)
                 /\ Len(irc_on_participant_joined(R, IrcCtrl, ch, joiner, first).wire)
                      = Len(R.wire) + IF first THEN 1 ELSE 0
  /\ \A c \in Live :
       LET R == m_out(St, c)
           leaver == ctl[c].cs
           ch == sessions[leaver].chat
           u == BsUser(ctl[c].bs)
           final == OfUser(u, ch) = {leaver}
       IN leaver \in Range(roster[ch]) =>
            \A o \in Range(roster[ch]) \ {leaver} :
              LET oc == sessions[o].ctrl
                  B == About(R, oc, "BYE", UserEmail(u))
              IN /\ ctl[oc].dialect < 16 => Len(B) = IF final THEN 1 ELSE 0
                 /\ ctl[oc].dialect >= 16 => Len(B) >= 1 /\ B[1].args[1] = RowAddress(St, leaver)
                 /\ Len(irc_on_participant_left(R, IrcCtrl, ch, leaver, FALSE, final).wire)
                      = Len(R.wire) + IF final THEN 1 ELSE 0

\* a second device of a user has joined a room where a member of dialect below 16
\* was watching
C19_Witness ==
  /\ last.op = "ANS"
  /\ last.ret = "joined"
  /\ ctl[last.c].cs # 0
  /\ LET cs == ctl[last.c].cs
         ch == sessions[cs].chat
     IN /\ OfUser(BsUser(sessions[cs].bs), ch) # {cs}
        /\ cs \in Range(roster[ch])
        /\ \E o \in Range(roster[ch]) : o # cs /\ ctl[sessions[o].ctrl].dialect < 16

\* ------------------------------------------------------------- claims on first and last for user
\* what the frames about session i's user show of the flag that the handler of
\* connection oc was passed: an observer of dialect below 16 is told only if the
\* flag is set, one of dialect 16 or more is told twice of a device with a device
\* id if the flag is set and once if not
Shows(oc, i) == ctl[oc].dialect < 16 \/ BsPopId(sessions[i].bs).some

Flag(q, oc) == IF ctl[oc].dialect < 16 THEN Len(q) = 1 ELSE Len(q) = 2

\* what the room's notices show when connection c calls in
JoinFlags(c) ==
  LET R == RoomAns(c)
      ch == tokens[1].chat
      u == BsUser(tokens[1].bs)
  IN \A o \in Range(roster[ch]) :
       LET oc == sessions[o].ctrl
       IN ctl[oc].dialect < 16 \/ BsPopId(tokens[1].bs).some =>
            (Flag(About(R, oc, "JOI", UserEmail(u)), oc) <=> OfUser(u, ch) = {})

\* what the room's notices show when connection c leaves
LeaveFlags(c) ==
  LET R == m_out(St, c)
      leaver == ctl[c].cs
      ch == sessions[leaver].chat
      u == BsUser(ctl[c].bs)
  IN leaver \in Range(roster[ch]) =>
       \A o \in Range(roster[ch]) \ {leaver} :
         LET oc == sessions[o].ctrl
         IN Shows(oc, leaver) =>
              (Flag(About(R, oc, "BYE", UserEmail(u)), oc) <=> OfUser(u, ch) \ {leaver} = {})

\* the invites of its own address after which connection c is told that it joined
SelfJoins(c) ==
  {f \in CalFrames : /\ BsPopId(ctl[c].bs).some
                     /\ f.target = OwnEmail(c)
                     /\ Cal(c, f).ret \in {"self", "shim"}}

ContentTypes(d) == {d[i].v : i \in {j \in DOMAIN d : d[j].k = "hdr" /\ d[j].n = "Content-Type"}}

\* d is a datacast body: its header is the datacast Content-Type, and what follows
\* the blank line starts with an ID: whose line is ended and can be decoded
IsDatacast(d) ==
  /\ Len(d) >= 5
  /\ SubSeq(d, 1, 4) = <<ContentType(Datacast), CRLF, CRLF, Ch("ID:")>>
  /\ \E k \in 5..Len(d) : d[k] = CRLF
  /\ \A k \in 5..Len(d) : d[k] # BadByte

\* the id of a datacast body: what stands between the ID: and the line end, stripped
IdValue(d) ==
  LET e == CHOOSE k \in 5..Len(d) : d[k] = CRLF /\ \A j \in 5..(k - 1) : d[j] # CRLF
  IN SelectSeq(SubSeq(d, 5, e - 1), LAMBDA x : x # Ch(" "))

\* C22: a datacast body with ID 1 is decoded as a Nudge with the empty text, and one
\* with any other ID as a Chat with the placeholder text.
C22_Datacast ==
  last.op = "decoded" /\ IsDatacast(last.c) =>
    IF IdValue(last.c) = <<Ch("1")>>
    THEN last.ret.type = "Nudge" /\ last.ret.text = <<>>
    ELSE last.ret.type = "Chat" /\ last.ret.text = Unsupported

\* a datacast with ID 2 was decoded
C22_Witness ==
  /\ last.op = "decoded"
  /\ last.c = <<ContentType(Datacast), CRLF, CRLF, Ch("ID:"), Ch("2"), CRLF>>
  /\ last.ret.type = "Chat"

\* a datacast with ID 1 was decoded
C22_WitnessNudge ==
  /\ last.op = "decoded"
  /\ last.c = <<ContentType(Datacast), CRLF, CRLF, Ch("ID:"), Ch("1"), CRLF>>
  /\ last.ret.type = "Nudge"

\* C23: every body is decoded to a message; a body without the blank line, with a
\* byte that is no UTF-8 in its header, without a Content-Type, with an unknown
\* Content-Type, or a datacast without an ID, is decoded as a Chat with the
\* placeholder text; so is every body whose content type is none of the three.
C23_Total ==
  last.op = "decoded" =>
    LET d == last.c
        at == index(d, <<CRLF, CRLF>>, 1)
    IN /\ last.ret.type \in {"Chat", "Typing", "Nudge"}
       /\ last.ret.sender = "u1"
       /\ (\/ at = 0
           \/ \E k \in 1..at : d[k] = BadByte
           \/ ContentTypes(d) \subseteq {P2P}
           \/ ContentTypes(d) = {Datacast} /\ Ch("ID:") \notin Range(d))
            => last.ret.type = "Chat" /\ last.ret.text = Unsupported
       /\ last.ret.type = "Typing" => MsControl \in ContentTypes(d)
       /\ last.ret.type = "Nudge" => Datacast \in ContentTypes(d) /\ Ch("ID:") \in Range(d)
       /\ last.ret.type = "Chat" /\ last.ret.text # Unsupported => TextPlain \in ContentTypes(d)

\* a body that has no header at all was decoded
C23_Witness ==
  /\ last.op = "decoded"
  /\ last.c = <<BadByte, Ch("h"), CRLF>>
  /\ last.ret.text = Unsupported

\* C24: in a fan-out every recipient is written the same body; the body is computed
\* at most once, and not at all for a message that came with one; afterwards the
\* message holds that body, and a further encode returns it without computing.
C24_Cached ==
  last.op = "fanout" =>
    LET r == last.ret
        again == messagedata_to_msnp(r.data)
    IN /\ \A i, j \in DOMAIN r.bodies : r.bodies[i] = r.bodies[j]
       /\ r.computed <= 1
       /\ last.c.front_cache.some => r.computed = 0 /\ \A i \in DOMAIN r.bodies : r.bodies[i] = last.c.front_cache.v
       /\ r.bodies # <<>> =>
            /\ ~again.computed
            /\ again.bytes = r.bodies[1]
            /\ r.data.front_cache = Cached(r.bodies[1])

\* a message of another front-end went to three recipients
C24_Witness ==
  /\ last.op = "fanout"
  /\ ~last.c.front_cache.some
  /\ Len(last.ret.bodies) = 3
  /\ last.ret.computed = 1

\* ------------------------------------------------------------- claims on dispatch
\* the last step was a chunk
Chunked == last.op = "chunk"

\* the exits by which an exception leaves into data_received
Errors == {"AttributeError", "TypeError", "assert", "refused"}

\* the frames among w that are written to controller c
To(w, c) == SelectSeq(w, LAMBDA x : x.to = c)

\* the frames by which the room tells a session what the others do
EventVerbs == {"JOI", "BYE", "MSG"}

\* the replies among w to controller c: the frames that are no room events
Replies(w, c) == SelectSeq(To(w, c), LAMBDA x : x.verb \notin EventVerbs)

\* C25 as stated: every error raised while a frame is handled is answered with a
\* negative reply to the client
C25_Original ==
  Chunked =>
    \A k \in DOMAIN last.ret :
      last.ret[k].ret \in Errors => \E i \in DOMAIN last.ret[k].wire :
                                      /\ last.ret[k].wire[i].to = last.c
                                      /\ last.ret[k].wire[i].verb = "ERR"

\* C25: an error raised while a frame is handled (no handler for the verb, arguments
\* that do not fit the handler, MSG or CAL before a handoff, a join that fails inside
\* USR) is caught and logged: data_received writes no reply of its own, so the client
\* reads nothing but what the handler wrote before it raised (the refusal of a join),
\* the controller is not closed by it, and no field of the controller, no room and
\* no token changes except by what the handler did before it raised
C25_Caught ==
  Chunked =>
    \A k \in DOMAIN last.ret :
      LET r == last.ret[k]
      IN r.ret \in Errors =>
           /\ r.after.closed = r.before.closed
           /\ ~r.joined
           /\ IF r.ret = "refused"
              THEN /\ Len(r.wire) = 1
                   /\ r.wire[1].verb = "ERR"
                   /\ r.wire[1].args[1] = "JoinRefused"
              ELSE /\ r.wire = <<>>
                   /\ r.after = r.before
                   /\ ~r.taken

\* a chunk whose first frame has no handler and whose second frame is a handoff that
\* joins: the frame after the error is handled
C25_Witness ==
  /\ Chunked
  /\ Len(last.ret) = 2
  /\ last.ret[1].ret = "AttributeError"
  /\ last.ret[2].ret = "joined"
  /\ ~ctl[last.c].closed

\* a message before the handoff, then a frame that is handled
C25_WitnessEarly ==
  /\ Chunked
  /\ Len(last.ret) = 2
  /\ last.ret[1].f.verb = "MSG"
  /\ last.ret[1].ret = "assert"
  /\ last.ret[2].ret = "joined"

\* a join that fails inside USR, then a frame that is handled
C25_WitnessFault ==
  /\ Chunked
  /\ Len(last.ret) = 2
  /\ last.ret[1].ret = "refused"
  /\ last.ret[2].f.verb = "OUT"
  /\ last.ret[2].ret = "out"
  /\ ctl[last.c].closed

\* ------------------------------------------------------------- claims on auth framing
\* a USR or ANS frame whose number of arguments is wrong
BadFraming(r) == r.f.verb \in Variadic /\ r.f.arity # "ok"

\* C26: a USR or ANS frame with too few or too many arguments, reaching a controller
\* that is not closed, hard-closes it: the controller is closed, no reply is written
\* to the client, and no token is consumed
C26_Original ==
  Chunked =>
    \A k \in DOMAIN last.ret :
      LET r == last.ret[k]
      IN BadFraming(r) /\ ~r.before.closed =>
           /\ r.after.closed
           /\ Replies(r.wire, last.c) = <<>>
           /\ ~r.taken

\* with one argument too many the frame closes the controller as C26 says
C26_TooMany ==
  Chunked =>
    \A k \in DOMAIN last.ret :
      LET r == last.ret[k]
      IN BadFraming(r) /\ r.f.arity = "many" /\ ~r.before.closed =>
           /\ r.ret = "framing"
           /\ r.after.closed
           /\ r.after.auth_sent
           /\ Replies(r.wire, last.c) = <<>>
           /\ ~r.taken

\* a USR frame with an argument too many while a token is live
C26_WitnessTooMany ==
  /\ Chunked
  /\ \E k \in DOMAIN last.ret :
       /\ BadFraming(last.ret[k])
       /\ last.ret[k].f.arity = "many"
       /\ last.ret[k].after.closed
  /\ tokens[1].state = "live"

\* a USR or ANS frame with an argument missing leaves the controller as it was
C26_TooFew ==
  Chunked =>
    \A k \in DOMAIN last.ret :
      LET r == last.ret[k]
      IN BadFraming(r) /\ r.f.arity = "few" =>
           /\ r.ret = "TypeError"
           /\ r.after = r.before
           /\ r.wire = <<>>

\* ------------------------------------------------------------- claims on close
\* the timer of c is cancelled and cleared, and the chat session of c is in no room
Released(c) == ctl[c].counter_task = "none" /\ (ctl[c].cs # 0 => ~InRoster(St, ctl[c].cs))

\* no session that c made is in a room: neither the one it holds nor one that an
\* earlier handoff of c left behind
Gone(c) == \A i \in DOMAIN sessions : sessions[i].ctrl = c => ~InRoster(St, i)

\* the exits of the handlers that call close()
Closing == {"out", "framing", "token", "identity", "stale", "room", "oversize"}

\* C27: when close() of a controller returns, called by an OUT frame, a hard close,
\* the timer, or the close event of its chat session, the timer is cancelled and
\* cleared and the controller's chat session is in no room
C27_Original ==
  /\ (Chunked =>
        \A k \in DOMAIN last.ret :
          last.ret[k].ret \in Closing =>
            /\ last.ret[k].after.closed
            /\ last.ret[k].after.counter_task = "none"
            /\ ~last.ret[k].rostered)
  /\ (last.op = "timer" /\ last.ret = "closed" => ctl[last.c].closed /\ Released(last.c))
  /\ (last.op = "evict" => ctl[last.c].closed /\ Released(last.c))

\* a close() that finds the controller open does what C27 says; and what the other
\* connection does writes no frame to a closed controller that has no session in a
\* room
C27_FirstClose ==
  /\ (Chunked =>
        \A k \in DOMAIN last.ret :
          ~last.ret[k].before.closed /\ last.ret[k].after.closed =>
            last.ret[k].after.counter_task = "none" /\ ~last.ret[k].rostered)
  /\ (last.op = "timer" /\ last.ret = "closed" => ctl[last.c].closed /\ Released(last.c))
  /\ (last.op = "evict" /\ last.ret = "evicted" => ctl[last.c].closed /\ Released(last.c))
  /\ (Chunked =>
        \A o \in Pair \ {last.c} :
          ctl[o].closed /\ Gone(o) =>
            \A k \in DOMAIN last.ret : To(last.ret[k].wire, o) = <<>>)

\* an OUT frame closes a controller whose session shares its room with the peer's:
\* the peer is told that it left
C27_WitnessOut ==
  /\ Chunked
  /\ \E k \in DOMAIN last.ret :
       /\ last.ret[k].f.verb = "OUT"
       /\ last.ret[k].before.cs # 0
       /\ ~last.ret[k].before.closed
       /\ last.ret[k].after.closed
       /\ \E i \in DOMAIN last.ret[k].wire :
            last.ret[k].wire[i].to # last.c /\ last.ret[k].wire[i].verb = "BYE"

\* a hard close of a controller that is in a room
C27_WitnessHard ==
  /\ Chunked
  /\ \E k \in DOMAIN last.ret :
       /\ last.ret[k].ret = "framing"
       /\ last.ret[k].before.cs # 0
       /\ ~last.ret[k].before.closed
       /\ last.ret[k].after.closed

\* the timer closes a controller that sent no handoff
C27_WitnessTimer == last.op = "timer" /\ last.ret = "closed" /\ ctl[last.c].closed

\* the backend closes the session of an open controller
C27_WitnessEvict == last.op = "evict" /\ last.ret = "evicted" /\ ctl[last.c].closed

\* the peer joins the room and sends a message after the controller closed
C27_WitnessQuiet ==
  /\ Chunked
  /\ last.ret[1].f.verb = "MSG"
  /\ last.ret[1].ret = "sent"
  /\ \E o \in Pair \ {last.c} : ctl[o].closed /\ ctl[o].cs # 0 /\ Gone(o)

\* ------------------------------------------------------------- claims on the controller's states
\* the handling of a frame changed bs, cs or dialect
Rebound(r) ==
  \/ r.after.bs # r.before.bs
  \/ r.after.cs # r.before.cs
  \/ r.after.dialect # r.before.dialect

\* C28: the controller only moves forward: a session is bound only by a USR or ANS
\* that succeeds, a controller that holds a session performs no further handoff,
\* and once the controller is closed no later frame, in the same chunk or not,
\* joins a room, changes bs, cs or dialect, or writes a reply
C28_Original ==
  Chunked =>
    \A k \in DOMAIN last.ret :
      LET r == last.ret[k]
      IN /\ (r.joined \/ r.after.cs # r.before.cs => r.f.verb \in Variadic /\ r.ret = "joined")
         /\ (r.before.cs # 0 => ~r.joined /\ ~Rebound(r))
         /\ (r.before.closed => /\ r.after.closed
                                /\ ~r.joined
                                /\ ~Rebound(r)
                                /\ Replies(r.wire, last.c) = <<>>)

\* a session is bound only by a USR or ANS that succeeds, and a closed controller
\* stays closed
C28_Forward ==
  Chunked =>
    \A k \in DOMAIN last.ret :
      LET r == last.ret[k]
      IN /\ (r.joined \/ r.after.cs # r.before.cs => r.f.verb \in Variadic /\ r.ret = "joined")
         /\ (r.before.closed => r.after.closed)

\* a controller that holds a session hands off again and holds another session,
\* while the first session stays in its room
C28_SecondHandoff ==
  /\ Chunked
  /\ \E k \in DOMAIN last.ret :
       /\ last.ret[k].before.cs # 0
       /\ ~last.ret[k].before.closed
       /\ last.ret[k].ret = "joined"
       /\ last.ret[k].after.cs # last.ret[k].before.cs
       /\ InRoster(St, last.ret[k].before.cs)

\* a frame that follows OUT in the same chunk joins a room and is answered
C28_AfterClose ==
  /\ Chunked
  /\ Len(last.ret) = 2
  /\ last.ret[1].ret = "out"
  /\ last.ret[2].before.closed
  /\ last.ret[2].ret = "joined"
  /\ last.ret[2].rostered
  /\ Replies(last.ret[2].wire, last.c) # <<>>

\* ------------------------------------------------------------- claims on wire framing
\* the last step delivered a stream in chunks
Delivered == last.op = "delivered"

\* the frames that the chunks yielded, in the order of the chunks
Dispatched(outs) == Flat([k \in DOMAIN outs |-> outs[k].out])

\* the number of bytes that the frames q took
RECURSIVE Taken(_)
Taken(q) == IF q = <<>> THEN 0 ELSE Head(q).e + Taken(Tail(q))

\* C29: a byte stream delivered to the reader in chunks, cut at any place, yields
\* the frames that the stream yields when delivered in one piece: the same tokens and
\* payloads in the same order, and the same bytes left in the buffer; and after
\* each chunk the frames yielded so far took no more bytes than have arrived
C29_Chunking ==
  Delivered =>
    LET x == last.c.stream
        chunks == Split(x, last.c.cuts)
        outs == last.ret
        whole == drain(x, <<>>)
    IN /\ Len(outs) = Len(chunks)
       /\ Dispatched(outs) = whole.out
       /\ outs[Len(outs)].data = whole.data
       /\ \A k \in DOMAIN outs :
            Taken(Dispatched(SubSeq(outs, 1, k))) <= Len(Flat(SubSeq(chunks, 1, k)))

\* a message and an OUT, cut inside the command line and inside the payload: the
\* first two chunks yield nothing, the third yields both frames
C29_Witness ==
  /\ Delivered
  /\ last.c.stream = <<"M", "S", "G", Sp, "5", Cr, Lf, "O", "U", "T", Cr, Lf, "O", "U", "T", Cr, Lf>>
  /\ last.c.cuts = {2, 9}
  /\ last.ret[1].out = <<>>
  /\ last.ret[2].out = <<>>
  /\ Len(last.ret[3].out) = 2
  /\ last.ret[3].out[1].body = Cached(<<"O", "U", "T", Cr, Lf>>)
  /\ last.ret[3].out[2].m = <<<<"O", "U", "T">>>>

\* a cut between the carriage return and the line feed of a command
C29_WitnessLineEnd ==
  /\ Delivered
  /\ last.c.stream = <<"O", "U", "T", Cr, Lf, "O", "U", "T", Lf>>
  /\ last.c.cuts = {4}
  /\ last.ret[1].out = <<>>
  /\ Len(last.ret[2].out) = 2

\* the last step read what the writer wrote
ReadBack == last.op = "read"

\* the reader yields the one frame f and nothing else: its verb and tokens, and its
\* payload
SameFrame(f, r) ==
  /\ ~r.raised
  /\ r.data = <<>>
  /\ Len(r.out) = 1
  /\ r.out[1].m = f.m
  /\ r.out[1].body = f.data

\* the last token of the command line among the bytes d
CountToken(d) ==
  LET m == split(strip_ws(SubSeq(d, 1, find(d, Lf))))
  IN m[Len(m)]

\* C30: the bytes that MSNPWriter.write produces for a frame (a verb, any string
\* tokens, a payload with a verb of the payload set) are read by MSNPReader as
\* that frame: the same verb, the same tokens, the same payload; and the byte
\* count on the wire is the length of the payload
C30_Original ==
  /\ (ReadBack => SameFrame(last.c, last.ret))
  /\ (last.op = "written" /\ last.c.data.some =>
        CountToken(last.ret) = str(Len(last.c.data.v)))

\* the token holds a percent sign followed by two hexadecimal digits
Escaped(t) ==
  \E i \in DOMAIN t : /\ t[i] = "%"
                      /\ i + 2 <= Len(t)
                      /\ t[i + 1] \in HexDigits
                      /\ t[i + 2] \in HexDigits

\* no token of the frame is empty or holds the text of an escape, and the payload,
\* if any, has a byte
Plain(f) ==
  /\ \A i \in 2..Len(f.m) : f.m[i] # <<>> /\ ~Escaped(f.m[i])
  /\ f.data.some => f.data.v # <<>>

\* frames whose tokens are not empty and hold no text of an escape, and whose
\* payload is not empty, are read as they were written, spaces and single percent
\* signs included; and the byte count on the wire is the length of the payload
C30_Plain ==
  /\ (ReadBack /\ Plain(last.c) => SameFrame(last.c, last.ret))
  /\ (last.op = "written" /\ last.c.data.some =>
        CountToken(last.ret) = str(Len(last.c.data.v)))

\* a token with a space and a token with a percent sign are read as written
C30_WitnessPlain ==
  /\ ReadBack
  /\ last.c.m = <<<<"M", "S", "G">>, <<"a", Sp, "b">>, <<"5", "0", "%">>>>
  /\ last.c.data = Cached(<<"O", "U", "T", Cr, Lf>>)
  /\ SameFrame(last.c, last.ret)

\* the token a%20b is written as it is and read as "a b"
C30_PercentLost ==
  /\ ReadBack
  /\ last.c.m = <<<<"O", "U", "T">>, <<"a", "%", "2", "0", "b">>>>
  /\ last.ret.out[1].m = <<<<"O", "U", "T">>, <<"a", Sp, "b">>>>

\* a payload without bytes is written with the count 0 and read as no payload
C30_EmptyPayloadLost ==
  /\ ReadBack
  /\ last.c.m = <<<<"M", "S", "G">>, <<"1">>>>
  /\ last.c.data = Cached(<<>>)
  /\ last.ret.out[1].m = last.c.m
  /\ last.ret.out[1].body = NoCache

\* an empty token is not read at all
C30_EmptyTokenLost ==
  /\ ReadBack
  /\ last.c.m = <<<<"O", "U", "T">>, <<>>, <<"1">>>>
  /\ last.ret.out[1].m = <<<<"O", "U", "T">>, <<"1">>>>
\* ------------------------------------------------------------- claims on offline messages
\* the message that the file of uuid for r holds
Kept(r, uuid) == OIM(uuid, oims[r][uuid].text)

\* C31 as stated: a saved message is returned by get_oim_single and is in
\* get_oim_batch until it is deleted, a deleted one by neither, and deleting an id
\* that does not exist changes nothing
C31_Original ==
  /\ \A r \in Recipients, uuid \in OimIds :
       IF oims[r][uuid].is_file
       THEN /\ get_oim_single(oims, r, uuid, FALSE).ret = Kept(r, uuid)
            /\ Kept(r, uuid) \in get_oim_batch(oims, r)
       ELSE /\ get_oim_single(oims, r, uuid, FALSE).ret.kind # "oim"
            /\ \A o \in get_oim_batch(oims, r) : o.uuid # uuid
  /\ (last.op = "delete" /\ last.ret = "missing") => oims = last.c.before

\* what the store does keep: save writes the file unless there is one, delete
\* removes it, deleting a missing id changes nothing, and the getters change nothing
C31_Files ==
  /\ (last.op = "save" /\ last.ret = "saved") =>
       /\ ~last.c.before[last.c.r][last.c.uuid].is_file
       /\ oims[last.c.r][last.c.uuid].is_file
       /\ \A r \in Recipients, uuid \in OimIds :
            <<r, uuid>> # <<last.c.r, last.c.uuid>> => oims[r][uuid] = last.c.before[r][uuid]
  /\ (last.op = "delete" /\ last.ret = "deleted") =>
       /\ ~oims[last.c.r][last.c.uuid].is_file
       /\ \A r \in Recipients, uuid \in OimIds :
            <<r, uuid>> # <<last.c.r, last.c.uuid>> => oims[r][uuid] = last.c.before[r][uuid]
  /\ (last.op = "delete" /\ last.ret = "missing") => oims = last.c.before
  /\ last.op \in {"single", "batch"} => oims = last.c.before

\* no getter ever returns a message: a stored one gives None, a missing one raises
C31_NeverReturned ==
  /\ last.op = "single" =>
       last.ret = IF last.c.before[last.c.r][last.c.uuid].is_file THEN None ELSE Raised
  /\ last.op = "batch" => last.ret = {}

\* a stored message was asked for
C31_WitnessStored ==
  /\ last.op = "single"
  /\ last.c.before[last.c.r][last.c.uuid].is_file

\* ------------------------------------------------------------- claims on IRC membership
\* the open chat sessions of connection c in the room of channel
Memberships(I, c, channel) == {j \in Range(I.roster[channel]) : I.sessions[j].ctrl = c}

\* the frames of the last step that tell of a participant who joined
Broadcast == {k \in DOMAIN last.ret.wire : last.ret.wire[k].verb = "JOIN"}

\* C32: an IRC connection holds at most one open chat session per room, and its
\* chat_sessions map names exactly that one; a JOIN to a channel it is in adds no
\* roster entry and tells nobody; after a PART the room is absent from the map,
\* and a JOIN to a room that is absent from the map gives a fresh membership
C32_OnePerRoom ==
  /\ \A c \in IrcCtrls, channel \in Channels :
       /\ Cardinality(Memberships(irc, c, channel)) <= 1
       /\ Len(irc.roster[channel]) = Cardinality(Range(irc.roster[channel]))
       /\ Memberships(irc, c, channel) =
            IF irc.chat_sessions[c][channel] = 0 THEN {} ELSE {irc.chat_sessions[c][channel]}
  /\ last.op = "JOIN" =>
       LET c == last.c.c
           channel == last.c.channel
           before == last.c.before
       IN /\ last.ret.exit = "present" <=>
               (before.chat_sessions[c][channel] # 0 /\ last.ret.exit # "raised")
          /\ last.ret.exit = "present" =>
               /\ irc.roster = before.roster
               /\ irc.sessions = before.sessions
               /\ irc.chat_sessions = before.chat_sessions
               /\ Broadcast = {}
          /\ last.ret.exit = "joined" =>
               /\ irc.chat_sessions[c][channel] = Len(before.sessions) + 1
               /\ irc.roster[channel] = Append(before.roster[channel], Len(before.sessions) + 1)
               /\ \A k \in Broadcast : last.ret.wire[k].to # c
               /\ {last.ret.wire[k].to : k \in Broadcast} =
                    {before.sessions[j].ctrl : j \in Range(before.roster[channel])}
          /\ last.ret.exit = "raised" => irc.roster = before.roster /\ irc.sessions = before.sessions
  /\ (last.op = "PART" /\ last.ret.exit = "parted") =>
       /\ irc.chat_sessions[last.c.c][last.c.channel] = 0
       /\ Memberships(irc, last.c.c, last.c.channel) = {}
       /\ Memberships(last.c.before, last.c.c, last.c.channel) # {}
  /\ (last.op = "PART" /\ last.ret.exit = "raised") =>
       /\ irc = last.c.before
       /\ last.ret.wire = <<>>

\* a JOIN to a channel the connection is in, with somebody else in the room
C32_WitnessTwice ==
  /\ last.op = "JOIN"
  /\ last.ret.exit = "present"
  /\ Len(irc.roster[last.c.channel]) = 2

\* a JOIN after a PART: a fresh membership, the parted one still on record
C32_WitnessRejoin ==
  /\ last.op = "JOIN"
  /\ last.ret.exit = "joined"
  /\ \E j \in DOMAIN last.c.before.sessions :
       /\ last.c.before.sessions[j].ctrl = last.c.c
       /\ last.c.before.sessions[j].chat = last.c.channel
  /\ Broadcast # {}

\* a PART that took the connection out of a room
C32_WitnessPart ==
  /\ last.op = "PART"
  /\ last.ret.exit = "parted"
  /\ \E k \in DOMAIN last.ret.wire : last.ret.wire[k].to # last.c.c

\* ------------------------------------------------------------- claims on a refused join
\* the replies to c that tell of success
Success(R, c) ==
  {k \in DOMAIN R.wire : R.wire[k].to = c /\ R.wire[k].verb \in {"USR", "IRO", "ANS"}}

\* the error replies to c
Failure(R, c) == {k \in DOMAIN R.wire : R.wire[k].to = c /\ R.wire[k].verb = "ERR"}

\* the handler's result tells c of the refusal once, with the request's transaction id,
\* and of no success
RefusedOnce(R, c, trid) ==
  /\ Cardinality(Failure(R, c)) = 1
  /\ \A k \in Failure(R, c) : R.wire[k].trid = trid /\ R.wire[k].args[1] = "JoinRefused"
  /\ Success(R, c) = {}

\* dialect, bs and cs of c are in R what they are now
Unbound(R, c) ==
  /\ R.ctl[c].dialect = ctl[c].dialect
  /\ R.ctl[c].bs = ctl[c].bs
  /\ R.ctl[c].cs = ctl[c].cs

\* C33 as stated: a handoff whose join is refused, USR or ANS, is answered with one
\* error reply and no success reply, and leaves dialect, bs and cs as they were
C33_Original ==
  \A c \in Open :
    /\ \A f \in UsrFrames :
         Usr(c, f).ret = "refused" => RefusedOnce(Usr(c, f), c, f.trid) /\ Unbound(Usr(c, f), c)
    /\ \A f \in AnsFrames :
         Ans(c, f).ret = "refused" => RefusedOnce(Ans(c, f), c, f.trid) /\ Unbound(Ans(c, f), c)

\* what holds of a refused join: one error reply and no success reply on both paths;
\* on the call-in path dialect, bs and cs are as before; on the transfer path cs is
\* as before, dialect and bs are the token's, and an empty room is left behind
C33_Refused ==
  \A c \in Open :
    /\ \A f \in UsrFrames :
         LET R == Usr(c, f)
         IN R.ret = "refused" =>
              /\ RefusedOnce(R, c, f.trid)
              /\ R.ctl[c].cs = ctl[c].cs
              /\ R.ctl[c].dialect = tokens[f.token].dialect
              /\ R.ctl[c].bs = tokens[f.token].bs
              /\ R.sessions = sessions
              /\ R.roster = Append(roster, <<>>)
    /\ \A f \in AnsFrames :
         LET R == Ans(c, f)
         IN R.ret = "refused" =>
              /\ RefusedOnce(R, c, f.trid)
              /\ Unbound(R, c)
              /\ R.sessions = sessions
              /\ R.roster = roster

\* a transfer was refused on a controller that had no session: it now has a bs
C33_WitnessTransfer ==
  /\ last.op = "USR"
  /\ last.ret = "refused"
  /\ ctl[last.c].bs # NoBs
  /\ ctl[last.c].cs = 0

\* a call-in was refused
C33_WitnessCallIn ==
  /\ last.op = "ANS"
  /\ last.ret = "refused"
  /\ ctl[last.c].bs = NoBs

\* ------------------------------------------------------------- claims on the refusal's code
\* the dialects that Err.GetCodeForException was given for the error replies to c
CodeDialects(R, c) == {R.wire[k].args[2] : k \in Failure(R, c)}

\* C34 as stated: the code of a refused join is made from the dialect bound to the
\* presented token, for USR as for ANS, never from the controller's own dialect
C34_Original ==
  \A c \in Open :
    /\ \A f \in UsrFrames :
         Usr(c, f).ret = "refused" => CodeDialects(Usr(c, f), c) = {tokens[f.token].dialect}
    /\ \A f \in AnsFrames :
         Ans(c, f).ret = "refused" => CodeDialects(Ans(c, f), c) = {tokens[f.token].dialect}

\* what holds: the call-in path uses the token's dialect, the transfer path the
\* dialect the controller had before the frame
C34_Paths ==
  \A c \in Open :
    /\ \A f \in UsrFrames :
         Usr(c, f).ret = "refused" => CodeDialects(Usr(c, f), c) = {ctl[c].dialect}
    /\ \A f \in AnsFrames :
         Ans(c, f).ret = "refused" => CodeDialects(Ans(c, f), c) = {tokens[f.token].dialect}

\* a fresh controller, dialect 0, is about to be refused a transfer with a token
\* of another dialect
C34_WitnessDefault ==
  \E c \in Open : \E f \in UsrFrames :
    /\ Usr(c, f).ret = "refused"
    /\ ctl[c].dialect = 0
    /\ tokens[f.token].dialect # 0

\* a controller that was refused once, and so has the dialect of that token, is about
\* to be refused a transfer with a token of another dialect
C34_WitnessEarlier ==
  \E c \in Open : \E f \in UsrFrames :
    /\ Usr(c, f).ret = "refused"
    /\ ctl[c].dialect \notin {0, tokens[f.token].dialect}

\* ------------------------------------------------------------- claims on the sessions of a controller
\* the chat sessions whose handler is bound to c and that are in their room's roster
OpenOf(c) == {i \in DOMAIN sessions : sessions[i].ctrl = c /\ InRoster(St, i)}

\* C35 as stated: at most one open chat session has a handler bound to a controller,
\* it is the controller's cs, and a closed controller has none
C35_Original ==
  \A c \in Ctrls :
    /\ Cardinality(OpenOf(c)) <= 1
    /\ OpenOf(c) \subseteq {ctl[c].cs}
    /\ ctl[c].closed => OpenOf(c) = {}

\* what holds: cs is the last session the controller joined, it is open as long as
\* the controller is, and closing the controller takes cs, and only cs, out of its room
C35_Latest ==
  \A c \in Ctrls :
    /\ \A i \in DOMAIN sessions : sessions[i].ctrl = c => i <= ctl[c].cs
    /\ ctl[c].cs # 0 => (InRoster(St, ctl[c].cs) <=> ~ctl[c].closed)
    /\ \A i \in DOMAIN sessions : (sessions[i].ctrl = c /\ i < ctl[c].cs) => InRoster(St, i)

\* a controller handed off twice: the earlier session is open and is not cs
C35_WitnessRebound ==
  \E c \in Ctrls : \E i \in OpenOf(c) : i # ctl[c].cs /\ ~ctl[c].closed

\* a controller was closed and a session it joined is still in its room
C35_WitnessLeftOpen ==
  \E c \in Ctrls : ctl[c].closed /\ OpenOf(c) # {}

\* ------------------------------------------------------------- claims on the reader's progress
\* C36 as stated: the reader never stays stuck on unconsumed bytes: whatever whole
\* frames have been received, the buffer is eventually empty
C36_Original == (reader.data # <<>>) ~> (reader.data = <<>>)

\* what holds: a stream of well-formed frames is consumed to the last byte
C36_WellFormed == (~reader.wedge /\ reader.data # <<>>) ~> (reader.data = <<>>)

\* and once the loop has stopped on a wedge with nothing more on its way, every later
\* chunk is appended to the buffer and no frame is yielded any more
C36_Wedged ==
  [][(reader.wedge /\ reader.data # <<>> /\ reader.inflight = <<>> /\ reader.sent = 1) =>
       (reader'.out = reader.out /\ reader'.data # <<>>)]_vars

\* the reader holds a well-formed frame that was sent after a wedge, all has
\* arrived, and nothing was yielded
C36_WitnessStuck ==
  /\ reader.wedge
  /\ reader.inflight = <<>>
  /\ reader.sent = MaxResends + 1
  /\ reader.out = <<>>
  /\ Len(reader.data) > 5
  /\ SubSeq(reader.data, Len(reader.data) - 4, Len(reader.data)) = <<"O", "U", "T", Cr, Lf>>

\* ------------------------------------------------------------- claims on closing twice
\* the runs of method f of controller c among calls, and the OUT frames to c among w
Runs(calls, c, f) == Cardinality({k \in DOMAIN calls : calls[k] = [c |-> c, f |-> f]})

Outs(w, c) == Cardinality({k \in DOMAIN w : w[k].to = c /\ w[k].verb = "OUT"})

\* between S and R controller c was closed at most once: if it was closed in S, no
\* callback ran and no OUT was written; if it was closed in between, close_callback
\* and _on_close ran once each and one OUT was written, none if the close was hard
ClosedOnce(S, R, c, hard) ==
  LET calls == SubSeq(R.calls, Len(S.calls) + 1, Len(R.calls))
      w == SubSeq(R.wire, Len(S.wire) + 1, Len(R.wire))
      n == IF ~S.ctl[c].closed /\ R.ctl[c].closed THEN 1 ELSE 0
  IN /\ S.ctl[c].closed => R.ctl[c].closed
     /\ Runs(calls, c, "close_callback") = n
     /\ Runs(calls, c, "_on_close") = n
     /\ Outs(w, c) = IF hard THEN 0 ELSE n

\* the calls that close controller c, made in state S: close itself, soft and hard, an
\* OUT frame, the timer, an oversize MSG, a handoff that fails, and the close of one of
\* its chat sessions, idle or not, whose handler calls back into close
Closers(S, c) ==
  {[R |-> close(S, c, hard), hard |-> hard] : hard \in BOOLEAN}
    \cup {[R |-> m_out(S, c), hard |-> FALSE],
          [R |-> conn_auth_limit_counter(S, c), hard |-> TRUE],
          [R |-> m_msg(S, c, 1, "A", PayloadCeiling + 1, "Chat", TRUE), hard |-> TRUE],
          [R |-> m_usr(S, c, 1, NoArg, 1, TRUE, FALSE), hard |-> TRUE],
          [R |-> m_ans(S, c, 1, RoomArg("b1"), 2, 1, FALSE, FALSE), hard |-> TRUE]}
    \cup {[R |-> ChatSession_close(S, i, idle), hard |-> idle] :
            i \in {j \in DOMAIN S.sessions : S.sessions[j].ctrl = c /\ InRoster(S, j)},
            idle \in BOOLEAN}

\* C37: over any sequence of close calls the close callback and _on_close run once,
\* at most one OUT frame is written, and a hard close writes none: each call that
\* closes does so once, whatever call came before it, and each frame of a chunk that
\* was handled did so
C37_CloseOnce ==
  /\ \A c \in Pair : \A x \in Closers(St, c) :
       /\ ClosedOnce(St, x.R, c, x.hard)
       /\ \A y \in Closers(x.R, c) : x.R.ctl[c].closed => ClosedOnce(x.R, y.R, c, TRUE)
  /\ Chunked =>
       \A k \in DOMAIN last.ret :
         LET r == last.ret[k]
             n == IF ~r.before.closed /\ r.after.closed THEN 1 ELSE 0
         IN /\ Runs(r.calls, last.c, "close_callback") = n
            /\ Runs(r.calls, last.c, "_on_close") = n
            /\ Outs(r.wire, last.c) = IF r.ret = "out" THEN n ELSE 0
            /\ \A o \in Pair \ {last.c} : Outs(r.wire, o) = 0 /\ Runs(r.calls, o, "_on_close") = 0

\* two OUT frames in one chunk: the second finds the controller closed
C37_WitnessTwice ==
  /\ Chunked
  /\ Len(last.ret) = 2
  /\ last.ret[1].f.verb = "OUT"
  /\ last.ret[2].f.verb = "OUT"
  /\ last.ret[1].before.cs # 0
  /\ Outs(last.ret[1].wire, last.c) = 1
  /\ last.ret[2].before.closed

\* the chat session of an open controller is about to be closed by the backend: its
\* handler calls close, whose _on_close closes the chat session again
C37_WitnessReentrant ==
  \E c \in Pair :
    /\ ~ctl[c].closed
    /\ ctl[c].cs # 0
    /\ InRoster(St, ctl[c].cs)
    /\ Runs(ChatSession_close(St, ctl[c].cs, FALSE).calls, c, "_on_close") = 1

\* ------------------------------------------------------------- claims on frames before a handoff
\* the result R of a handler left everything as it is in S and wrote nothing
NoEffect(S, R) ==
  /\ R.wire = S.wire
  /\ R.calls = S.calls
  /\ R.ctl = S.ctl
  /\ R.roster = S.roster
  /\ R.sessions = S.sessions
  /\ R.tokens = S.tokens

\* C38: a MSG or CAL frame that reaches a controller without chat session has no
\* effect: nothing is fanned out, nobody is invited, and bs, cs, dialect, the closed
\* flag and the timer of the controller are as before
C38_NoSession ==
  /\ \A c \in Pair :
       ctl[c].cs = 0 =>
         /\ \A ack \in AckModes, size \in Sizes, kind \in Kinds, delivered \in BOOLEAN :
              LET R == caught(m_msg(St, c, 1, ack, size, kind, delivered), c, {"assert"})
              IN R.ret = "assert" /\ NoEffect(St, R)
         /\ \A target \in Targets, detail \in BOOLEAN, offlineish \in BOOLEAN,
               outcome \in InviteOutcomes :
              LET R == caught(m_cal(St, c, 1, target, detail, TRUE, offlineish, outcome), c, {"assert"})
              IN R.ret = "assert" /\ NoEffect(St, R)
  /\ Chunked =>
       \A k \in DOMAIN last.ret :
         LET r == last.ret[k]
         IN (r.f.verb \in {"MSG", "CAL"} /\ r.f.arity = "ok" /\ r.before.cs = 0) =>
              /\ r.ret = "assert"
              /\ r.wire = <<>>
              /\ r.calls = <<>>
              /\ r.after = r.before
              /\ ~r.joined
              /\ ~r.taken

\* a MSG and then a CAL reached a controller before any handoff, with its timer pending
C38_WitnessEarly ==
  /\ Chunked
  /\ Len(last.ret) = 2
  /\ last.ret[1].f.verb = "MSG"
  /\ last.ret[2].f.verb = "CAL"
  /\ last.ret[2].before.cs = 0
  /\ last.ret[2].before.counter_task = "pending"
  /\ ~last.ret[2].before.closed

\* a MSG reached a controller that a refused transfer left with a bs and no chat
\* session
C38_WitnessHalfBound ==
  /\ Chunked
  /\ Len(last.ret) = 2
  /\ last.ret[2].f.verb = "MSG"
  /\ last.ret[2].before.cs = 0
  /\ last.ret[2].before.bs # NoBs

\* ------------------------------------------------------------- claims on the bot's replies
\* what the bot has sent is Typing, Chat, Typing, Chat, ...
Alternating(out) ==
  \A k \in DOMAIN out : out[k].type = IF k % 2 = 1 THEN "Typing" ELSE "Chat"

\* at most one reply task is pending, and _sending is set exactly while it is; every
\* Typing message is followed by its Chat reply, the last one at most by the pending
\* task
OnePending ==
  /\ Len(bot.tasks) <= 1
  /\ bot.sending <=> bot.tasks # <<>>
  /\ Alternating(bot.out)
  /\ Len(bot.out) % 2 = Len(bot.tasks)

\* a message is accepted exactly if it is a Chat message, no reply is pending and its
\* sender is no bot; an accepted message sends one Typing message and leaves one
\* task, which will answer its sender with its text; an ignored one changes nothing;
\* the task that wakes sends its one reply and clears the flag
Accepting ==
  /\ bot.step.op = "message" =>
       LET message == bot.step.message
           before == bot.step
       IN /\ bot.step.ret = "accepted" <=>
               (message.type = "Chat" /\ ~before.sending /\ message.sender.domain # "bot.log1p.xyz")
          /\ bot.step.ret = "accepted" =>
               /\ bot.out = Append(before.out, [type |-> "Typing", to |-> "", text |-> ""])
               /\ bot.tasks = <<[type |-> "Chat", to |-> message.sender.local, text |-> message.text]>>
               /\ bot.sending
          /\ bot.step.ret = "ignored" =>
               bot.out = before.out /\ bot.tasks = before.tasks /\ bot.sending = before.sending
  /\ bot.step.op = "wake" =>
       /\ bot.out = Append(bot.step.out, Head(bot.step.tasks))
       /\ bot.tasks = <<>>
       /\ ~bot.sending

\* C39: per bot chat session at most one delayed reply is pending; Chat messages that
\* arrive meanwhile, messages of other types and messages of bots are ignored; each
\* accepted message gives one Typing message and later one Chat reply; and the
\* _sending flag is cleared again after every accepted message
C39_Discipline ==
  /\ [](OnePending /\ Accepting)
  /\ bot.sending ~> ~bot.sending

\* a second message was answered after a message had been ignored while the first
\* reply was pending
C39_WitnessAgain ==
  /\ bot.step.op = "wake"
  /\ Len(bot.out) = 4
  /\ bot.seen = 3
  /\ bot.out[2].text # bot.out[4].text

\* a Chat message of a user was ignored because a reply was pending
C39_WitnessIgnored ==
  /\ bot.step.op = "message"
  /\ bot.step.ret = "ignored"
  /\ bot.step.message.type = "Chat"
  /\ bot.step.message.sender.domain = "notbot.log1p.xyz"
  /\ bot.sending

\* ------------------------------------------------------------- claims on relayed payloads
\* the fan-outs of a message to 1 to MaxRecipients recipients
FanOuts(data) == {fan_out(data, n) : n \in 1..MaxRecipients}

\* C40: a payload that _m_msg decoded is written to every recipient byte for byte,
\* whatever its content type and whatever the decoder made of it, without any body
\* being computed; and a message of type TypingDone is written to nobody
C40_Verbatim ==
  /\ last.op = "decoded" =>
       /\ last.ret.type # "TypingDone"
       /\ last.ret.front_cache = Cached(last.c)
       /\ \A n \in 1..MaxRecipients :
            LET r == fan_out(last.ret, n)
            IN /\ Len(r.bodies) = n
               /\ \A i \in DOMAIN r.bodies : r.bodies[i] = last.c
               /\ r.computed = 0
  /\ last.op = "fanout" =>
       /\ last.c.front_cache.some =>
            /\ Len(last.ret.bodies) >= 1
            /\ \A i \in DOMAIN last.ret.bodies : last.ret.bodies[i] = last.c.front_cache.v
       /\ last.c.type = "TypingDone" => last.ret.bodies = <<>>
  /\ last.op = "message" /\ last.c.type = "TypingDone" =>
       \A r \in FanOuts(last.c) : r.bodies = <<>> /\ r.computed = 0

\* a payload of a content type that the decoder does not know, which is not what the
\* encoder would compute for the message made of it, went to three recipients
C40_WitnessUnsupported ==
  /\ last.op = "fanout"
  /\ last.c.front_cache.some
  /\ last.c.text = Unsupported
  /\ Len(last.ret.bodies) = 3
  /\ last.ret.bodies[3] # msnp_body(last.c)

\* a TypingDone message was handed to three recipients
C40_WitnessTypingDone ==
  /\ last.op = "fanout"
  /\ last.c.type = "TypingDone"
  /\ last.ret.bodies = <<>>

====
